---- MODULE Spec2Model ----
(***************************************************************************)
(* Pairing-based encryption of crypto-sample-ts: the TypeScript wrappers   *)
(* src/asymmetric/ibe.ts and src/asymmetric/abe.ts over the WebAssembly    *)
(* engine (Boneh-Franklin IBE, conjunctive CP-ABE and KP-ABE).             *)
(*                                                                         *)
(* The wrappers are translated from their source.  The engine behind the   *)
(* wasm boundary (wasm-src/*/src/*.rs) is not part of the sources; it is   *)
(* modelled from the specification, sections 4.1-4.5 and 7: a cyclic group *)
(* of order GroupOrder written additively by discrete logarithm, the       *)
(* pairing e(a, b) = a * b in the exponent, a try-and-increment hash to    *)
(* the group and a counter-mode mask.                                      *)
(***************************************************************************)
EXTENDS Integers, Sequences, FiniteSets, TLC

(***************************************************************************)
(* Bounds of the model.                                                    *)
(***************************************************************************)
MaxIdLen == 1
MaxAttrs == 2
MaxMsgLen == 1
MaxScalar == 2
MaxCalls == 2

(***************************************************************************)
(* Values.                                                                 *)
(***************************************************************************)
NULL == [type |-> "null"]

SeqsUpTo(S, n) == UNION {[1..k -> S] : k \in 0..n}

\* a byte of a Uint8Array, modelled by its low bit
Byte == 0..1

LabelChars == {"A", "B"}

\* identity strings handed to Extract and Encrypt
Identities == SeqsUpTo(LabelChars, MaxIdLen)

\* attribute labels, and the string[] arguments of key_gen / encrypt: the
\* attributes of a set, in insertion order
AttributeLabels == {<<c>> : c \in LabelChars}

NoDuplicates(a) == \A i, j \in 1..Len(a) : a[i] = a[j] => i = j

AttributeArrays == {a \in SeqsUpTo(AttributeLabels, MaxAttrs) : NoDuplicates(a)}

\* "A,B,C": a comma separated attribute list
RECURSIVE JoinComma(_)
JoinComma(a) ==
  IF a = <<>> THEN <<>>
  ELSE IF Len(a) = 1 THEN a[1]
  ELSE a[1] \o <<",">> \o JoinComma(Tail(a))

\* the policy strings handed to encrypt (CP-ABE) and key_gen (KP-ABE): the
\* joined attribute lists, and the lone separator
PolicyStrings == {JoinComma(a) : a \in AttributeArrays} \cup {<<",">>}

\* message: Uint8Array
Messages == SeqsUpTo(Byte, MaxMsgLen)

Bytes(b) == [type |-> "Uint8Array", bytes |-> b]

(***************************************************************************)
(* Field and group arithmetic layer (spec 4.1).  A point is its discrete   *)
(* logarithm to the generator; 0 is the point at infinity.                 *)
(***************************************************************************)
GroupOrder == 5

\* the nonzero scalars of Z_q the randomness source is seen to deliver
Scalars == 1..MaxScalar

generatorPoint == 1

ScalarMul(k, P) == (k * P) % GroupOrder

\* e(P, Q) in GT, as the exponent of e(generator, generator)
pairing(P, Q) == (P * Q) % GroupOrder

GTPow(g, r) == (g * r) % GroupOrder

GTMul(g, h) == (g + h) % GroupOrder

(***************************************************************************)
(* Hash-to-group (spec 4.2): digest, reduce into the field, retry with an  *)
(* incremented counter until the point is not the point at infinity.       *)
(***************************************************************************)
CharCode(c) == CASE c = "A" -> 1 [] c = "B" -> 2 [] OTHER -> 3

RECURSIVE Digest(_, _)
Digest(bytes, acc) ==
  IF bytes = <<>> THEN acc
  ELSE Digest(Tail(bytes), (3 * acc + CharCode(Head(bytes))) % GroupOrder)

RECURSIVE TryAndIncrement(_, _)
TryAndIncrement(bytes, counter) ==
  LET h == (Digest(bytes, 0) + 3 * counter) % GroupOrder
  IN IF h # 0 THEN h ELSE TryAndIncrement(bytes, counter + 1)

hashToPoint(bytes) == TryAndIncrement(bytes, 0)

(***************************************************************************)
(* KDF (spec 4.4): the pairing value stretched to the message length by    *)
(* hashing it with a block counter; XOR of byte strings.                   *)
(***************************************************************************)
HashBlock(g, counter) == (g * counter + (g \div 2) + counter) % 2

KDF(g, n) == [i \in 1..n |-> HashBlock(g, i)]

Xor(a, b) == (a + b) % 2

XorBytes(m, mask) == [i \in 1..Len(m) |-> Xor(m[i], mask[i])]

(***************************************************************************)
(* Randomness source (spec 4.3): a scalar from the entropy bridge, or no   *)
(* entropy at all.                                                         *)
(***************************************************************************)
RandomDraws ==
  {[ok |-> TRUE, scalar |-> k] : k \in Scalars} \cup {[ok |-> FALSE, scalar |-> 0]}

(***************************************************************************)
(* Completions of a call: a returned value or a thrown error.              *)
(***************************************************************************)
Return(v) == [kind |-> "return", value |-> v, error |-> NULL]

Throw(e) == [kind |-> "throw", value |-> NULL, error |-> e]

EngineError(k) == [context |-> "engine", kind |-> k]

\* new Error(`${context}: ${error}`): the engine's error text stays in the message
WrapError(context, e) == [context |-> context, kind |-> e.kind]

ErrorKinds == {"InvalidEncoding", "EmptyPolicy", "AttributeMismatch", "EntropyUnavailable"}

(***************************************************************************)
(* IBE engine (spec 4.4).                                                  *)
(***************************************************************************)
IBE_setup(rand) ==
  IF ~rand.ok THEN Throw(EngineError("EntropyUnavailable"))
  ELSE Return([master_key |-> [type |-> "IBEMasterKey", secret |-> rand.scalar],
               public_params |-> [type |-> "IBEPublicParams",
                                  params |-> [generatorPoint |-> generatorPoint,
                                              publicPoint |-> ScalarMul(rand.scalar, generatorPoint)]]])

IBE_extract(masterKey, identity) ==
  Return([type |-> "IBEPrivateKey",
          key |-> ScalarMul(masterKey.secret, hashToPoint(identity))])

IBE_encrypt(publicParams, identity, message, rand) ==
  IF ~rand.ok THEN Throw(EngineError("EntropyUnavailable"))
  ELSE LET r == rand.scalar
           U == ScalarMul(r, publicParams.params.generatorPoint)
           pairingVal == GTPow(pairing(publicParams.params.publicPoint, hashToPoint(identity)), r)
           mask == KDF(pairingVal, Len(message))
       IN Return([type |-> "Uint8Array", U |-> U, V |-> XorBytes(message, mask)])

IBE_decrypt(privateKey, ciphertext) ==
  LET pairingVal == pairing(privateKey.key, ciphertext.U)
      mask == KDF(pairingVal, Len(ciphertext.V))
  IN Return(Bytes(XorBytes(ciphertext.V, mask)))

(***************************************************************************)
(* src/asymmetric/ibe.ts                                                   *)
(***************************************************************************)
LoadOutcomes == {"ok", "loadFails", "initThrows"}

\* the outcomes wasmInit() / wasmModule.init() can have for this call
LoadChoices(module) ==
  IF module.isInitialized /\ module.wasmModule # NULL THEN {"ok"} ELSE LoadOutcomes

InitOutput == [type |-> "InitOutput"]

initIBE(module, load) ==
  IF module.isInitialized /\ module.wasmModule # NULL
  THEN [wasmModule |-> module.wasmModule, isInitialized |-> TRUE, error |-> NULL]
  ELSE CASE load = "loadFails" ->
              [wasmModule |-> module.wasmModule, isInitialized |-> module.isInitialized,
               error |-> [context |-> "Failed to initialize IBE WebAssembly module",
                          kind |-> "InitFailed"]]
         [] load = "initThrows" ->
              [wasmModule |-> InitOutput, isInitialized |-> module.isInitialized,
               error |-> [context |-> "Failed to initialize IBE WebAssembly module",
                          kind |-> "InitFailed"]]
         [] OTHER ->
              [wasmModule |-> InitOutput, isInitialized |-> TRUE, error |-> NULL]

ModuleAfter(st) == [wasmModule |-> st.wasmModule, isInitialized |-> st.isInitialized]

NotInitialized(context) == [context |-> context, kind |-> "NotInitialized"]

generateIBEKeyPair(module, load, rand) ==
  LET st == initIBE(module, load)
  IN IF st.error # NULL THEN Throw(st.error)
     ELSE IF st.wasmModule = NULL THEN Throw(NotInitialized("IBE module not initialized"))
     ELSE LET result == IBE_setup(rand)
          IN IF result.kind = "throw" THEN Throw(WrapError("IBE setup failed", result.error))
             ELSE IF result.value.master_key = NULL \/ result.value.public_params = NULL
                  THEN Throw([context |-> "IBE setup failed", kind |-> "MissingResult"])
                  ELSE Return([masterKey |-> result.value.master_key,
                               publicParams |-> result.value.public_params])

extractIBEKey(module, load, masterKey, identity) ==
  LET st == initIBE(module, load)
  IN IF st.error # NULL THEN Throw(st.error)
     ELSE IF st.wasmModule = NULL THEN Throw(NotInitialized("IBE module not initialized"))
     ELSE LET result == IBE_extract(masterKey, identity)
          IN IF result.kind = "throw" THEN Throw(WrapError("IBE extract failed", result.error))
             ELSE Return(result.value)

\* faulty variant: the identity is not handed to the engine
encryptIBE_DropsIdentity(module, load, publicParams, identity, message, rand) ==
  LET st == initIBE(module, load)
  IN IF st.error # NULL THEN Throw(st.error)
     ELSE IF st.wasmModule = NULL THEN Throw(NotInitialized("IBE module not initialized"))
     ELSE LET result == IBE_encrypt(publicParams, <<>>, message, rand)
          IN IF result.kind = "throw" THEN Throw(WrapError("IBE encrypt failed", result.error))
             ELSE Return(result.value)

\* faulty variant: a zero-length message is refused
encryptIBE_RejectsEmpty(module, load, publicParams, identity, message, rand) ==
  LET st == initIBE(module, load)
  IN IF st.error # NULL THEN Throw(st.error)
     ELSE IF st.wasmModule = NULL THEN Throw(NotInitialized("IBE module not initialized"))
     ELSE IF message = <<>>
          THEN Throw([context |-> "IBE encrypt failed", kind |-> "EmptyMessage"])
          ELSE LET result == IBE_encrypt(publicParams, identity, message, rand)
               IN IF result.kind = "throw"
                  THEN Throw(WrapError("IBE encrypt failed", result.error))
                  ELSE Return(result.value)

\* faulty variant: an engine error is swallowed and an all-zero ciphertext returned
encryptIBE_SilentDefault(module, load, publicParams, identity, message, rand) ==
  LET st == initIBE(module, load)
  IN IF st.error # NULL THEN Throw(st.error)
     ELSE IF st.wasmModule = NULL THEN Throw(NotInitialized("IBE module not initialized"))
     ELSE LET result == IBE_encrypt(publicParams, identity, message, rand)
          IN IF result.kind = "throw"
             THEN Return([type |-> "Uint8Array", U |-> 0, V |-> <<>>])
             ELSE Return(result.value)

encryptIBE(module, load, publicParams, identity, message, rand) ==
  LET st == initIBE(module, load)
  IN IF st.error # NULL THEN Throw(st.error)
     ELSE IF st.wasmModule = NULL THEN Throw(NotInitialized("IBE module not initialized"))
     ELSE LET result == IBE_encrypt(publicParams, identity, message, rand)
          IN IF result.kind = "throw" THEN Throw(WrapError("IBE encrypt failed", result.error))
             ELSE Return(result.value)

\* faulty variant: the unmasked bytes are dropped
decryptIBE_EmptyResult(module, load, privateKey, ciphertext) ==
  LET st == initIBE(module, load)
  IN IF st.error # NULL THEN Throw(st.error)
     ELSE IF st.wasmModule = NULL THEN Throw(NotInitialized("IBE module not initialized"))
     ELSE LET result == IBE_decrypt(privateKey, ciphertext)
          IN IF result.kind = "throw" THEN Throw(WrapError("IBE decrypt failed", result.error))
             ELSE Return(Bytes(<<>>))

decryptIBE(module, load, privateKey, ciphertext) ==
  LET st == initIBE(module, load)
  IN IF st.error # NULL THEN Throw(st.error)
     ELSE IF st.wasmModule = NULL THEN Throw(NotInitialized("IBE module not initialized"))
     ELSE LET result == IBE_decrypt(privateKey, ciphertext)
          IN IF result.kind = "throw" THEN Throw(WrapError("IBE decrypt failed", result.error))
             ELSE Return(result.value)

(***************************************************************************)
(* ABE engine (spec 4.5), conjunctive attribute model.  A policy string is *)
(* split at its commas; a key holds one component per attribute, in the    *)
(* order of its attribute list.  The integrity tag of section 7 is a keyed *)
(* checksum of the plaintext, verified after unmasking.                    *)
(***************************************************************************)
RECURSIVE SplitComma(_, _)
SplitComma(str, piece) ==
  IF str = <<>> THEN (IF piece = <<>> THEN <<>> ELSE <<piece>>)
  ELSE IF Head(str) = ","
       THEN (IF piece = <<>> THEN <<>> ELSE <<piece>>) \o SplitComma(Tail(str), <<>>)
       ELSE SplitComma(Tail(str), Append(piece, Head(str)))

ParsePolicy(policy) == SplitComma(policy, <<>>)

ToSet(a) == {a[i] : i \in 1..Len(a)}

IntegrityTag(g, plaintext) == [key |-> g, checksum |-> plaintext]

ABE_setup(rand) ==
  IF ~rand.ok THEN Throw(EngineError("EntropyUnavailable"))
  ELSE Return([master_key |-> [type |-> "ABEMasterKey", secret |-> rand.scalar],
               public_params |-> [type |-> "ABEPublicParams",
                                  params |-> [generatorPoint |-> generatorPoint,
                                              publicPoint |-> ScalarMul(rand.scalar, generatorPoint)]]])

KeyComponents(masterKey, attributes) ==
  [i \in 1..Len(attributes) |-> ScalarMul(masterKey.secret, hashToPoint(attributes[i]))]

\* the key component stored for attribute a (a is one of the key's attributes)
KeyComponent(privateKey, a) ==
  privateKey.key[CHOOSE i \in 1..Len(privateKey.attributes) : privateKey.attributes[i] = a]

\* the product in GT of e(publicPoint, hashToPoint(a))^r over the attributes
RECURSIVE EncryptPairing(_, _, _)
EncryptPairing(publicParams, attributes, r) ==
  IF attributes = <<>> THEN 0
  ELSE GTMul(GTPow(pairing(publicParams.params.publicPoint, hashToPoint(Head(attributes))), r),
             EncryptPairing(publicParams, Tail(attributes), r))

\* the product in GT of e(keyComponent_a, U) over the attributes
RECURSIVE DecryptPairing(_, _, _)
DecryptPairing(privateKey, attributes, U) ==
  IF attributes = <<>> THEN 0
  ELSE GTMul(pairing(KeyComponent(privateKey, Head(attributes)), U),
             DecryptPairing(privateKey, Tail(attributes), U))

SealABE(publicParams, attributes, message, rand) ==
  LET r == rand.scalar
      pairingVal == EncryptPairing(publicParams, attributes, r)
  IN [type |-> "Uint8Array",
      U |-> ScalarMul(r, publicParams.params.generatorPoint),
      V |-> XorBytes(message, KDF(pairingVal, Len(message))),
      tag |-> IntegrityTag(pairingVal, message),
      attributes |-> attributes]

OpenABE(privateKey, attributes, ciphertext) ==
  LET pairingVal == DecryptPairing(privateKey, attributes, ciphertext.U)
      plaintext == XorBytes(ciphertext.V, KDF(pairingVal, Len(ciphertext.V)))
  IN IF IntegrityTag(pairingVal, plaintext) = ciphertext.tag
     THEN Return(Bytes(plaintext))
     ELSE Throw(EngineError("AttributeMismatch"))

\* CP-ABE: attributes on the key, policy on the ciphertext
ABE_key_gen(masterKey, attributes) ==
  IF attributes = <<>> THEN Throw(EngineError("EmptyPolicy"))
  ELSE Return([type |-> "ABEPrivateKey",
               key |-> KeyComponents(masterKey, attributes),
               attributes |-> attributes])

ABE_encrypt(publicParams, policy, message, rand) ==
  LET attributes == ParsePolicy(policy)
  IN IF attributes = <<>> THEN Throw(EngineError("EmptyPolicy"))
     ELSE IF ~rand.ok THEN Throw(EngineError("EntropyUnavailable"))
     ELSE Return(SealABE(publicParams, attributes, message, rand))

ABE_decrypt(privateKey, ciphertext) ==
  IF ~(ToSet(ciphertext.attributes) \subseteq ToSet(privateKey.attributes))
  THEN Throw(EngineError("AttributeMismatch"))
  ELSE OpenABE(privateKey, ciphertext.attributes, ciphertext)

\* KP-ABE: policy on the key, attributes on the ciphertext
KPABE_setup(rand) == ABE_setup(rand)

KPABE_key_gen(masterKey, policy) ==
  LET attributes == ParsePolicy(policy)
  IN IF attributes = <<>> THEN Throw(EngineError("EmptyPolicy"))
     ELSE Return([type |-> "ABEPrivateKey",
                  key |-> KeyComponents(masterKey, attributes),
                  attributes |-> attributes])

KPABE_encrypt(publicParams, attributes, message, rand) ==
  IF attributes = <<>> THEN Throw(EngineError("EmptyPolicy"))
  ELSE IF ~rand.ok THEN Throw(EngineError("EntropyUnavailable"))
  ELSE Return(SealABE(publicParams, attributes, message, rand))

KPABE_decrypt(privateKey, ciphertext) ==
  IF ~(ToSet(privateKey.attributes) \subseteq ToSet(ciphertext.attributes))
  THEN Throw(EngineError("AttributeMismatch"))
  ELSE OpenABE(privateKey, privateKey.attributes, ciphertext)

(***************************************************************************)
(* src/asymmetric/abe.ts                                                   *)
(***************************************************************************)
initABE(module, load) ==
  IF module.isInitialized /\ module.wasmModule # NULL
  THEN [wasmModule |-> module.wasmModule, isInitialized |-> TRUE, error |-> NULL]
  ELSE CASE load = "loadFails" ->
              [wasmModule |-> module.wasmModule, isInitialized |-> module.isInitialized,
               error |-> [context |-> "Failed to initialize ABE WebAssembly module",
                          kind |-> "InitFailed"]]
         [] load = "initThrows" ->
              [wasmModule |-> InitOutput, isInitialized |-> module.isInitialized,
               error |-> [context |-> "Failed to initialize ABE WebAssembly module",
                          kind |-> "InitFailed"]]
         [] OTHER ->
              [wasmModule |-> InitOutput, isInitialized |-> TRUE, error |-> NULL]

\* faulty variant: the public parameters are left out of the result
generateABEKeyPair_NoParams(module, load, rand) ==
  LET st == initABE(module, load)
  IN IF st.error # NULL THEN Throw(st.error)
     ELSE IF st.wasmModule = NULL THEN Throw(NotInitialized("ABE module not initialized"))
     ELSE LET result == ABE_setup(rand)
          IN IF result.kind = "throw" THEN Throw(result.error)
             ELSE Return([masterKey |-> result.value.master_key, publicParams |-> NULL])

generateABEKeyPair(module, load, rand) ==
  LET st == initABE(module, load)
  IN IF st.error # NULL THEN Throw(st.error)
     ELSE IF st.wasmModule = NULL THEN Throw(NotInitialized("ABE module not initialized"))
     ELSE LET result == ABE_setup(rand)
          IN IF result.kind = "throw" THEN Throw(result.error)
             ELSE IF result.value = NULL
                  THEN Throw([context |-> "Failed to generate ABE key pair", kind |-> "MissingResult"])
                  ELSE Return([masterKey |-> result.value.master_key,
                               publicParams |-> result.value.public_params])

\* faulty variant: only the first attribute is handed to the engine
extractABEKey_FirstAttributeOnly(module, load, masterKey, attributes) ==
  LET st == initABE(module, load)
  IN IF st.error # NULL THEN Throw(st.error)
     ELSE IF st.wasmModule = NULL THEN Throw(NotInitialized("ABE module not initialized"))
     ELSE LET first == IF attributes = <<>> THEN <<>> ELSE <<Head(attributes)>>
              privateKey == ABE_key_gen(masterKey, first)
          IN IF privateKey.kind = "throw" THEN Throw(privateKey.error)
             ELSE Return(privateKey.value)

\* faulty variant: an empty attribute list yields an empty key
extractABEKey_AcceptsEmpty(module, load, masterKey, attributes) ==
  LET st == initABE(module, load)
  IN IF st.error # NULL THEN Throw(st.error)
     ELSE IF st.wasmModule = NULL THEN Throw(NotInitialized("ABE module not initialized"))
     ELSE LET privateKey == ABE_key_gen(masterKey, attributes)
          IN IF attributes = <<>>
             THEN Return([type |-> "ABEPrivateKey", key |-> <<>>, attributes |-> <<>>])
             ELSE IF privateKey.kind = "throw" THEN Throw(privateKey.error)
             ELSE Return(privateKey.value)

extractABEKey(module, load, masterKey, attributes) ==
  LET st == initABE(module, load)
  IN IF st.error # NULL THEN Throw(st.error)
     ELSE IF st.wasmModule = NULL THEN Throw(NotInitialized("ABE module not initialized"))
     ELSE LET privateKey == ABE_key_gen(masterKey, attributes)
          IN IF privateKey.kind = "throw" THEN Throw(privateKey.error)
             ELSE IF privateKey.value = NULL
                  THEN Throw([context |-> "Failed to extract ABE private key", kind |-> "MissingResult"])
                  ELSE Return(privateKey.value)

\* faulty variant: the attribute "B" is added to every policy
encryptABE_WidensPolicy(module, load, publicParams, policy, message, rand) ==
  LET st == initABE(module, load)
  IN IF st.error # NULL THEN Throw(st.error)
     ELSE IF st.wasmModule = NULL THEN Throw(NotInitialized("ABE module not initialized"))
     ELSE LET result == ABE_encrypt(publicParams, policy \o <<",", "B">>, message, rand)
          IN IF result.kind = "throw" THEN Throw(WrapError("ABE encrypt failed", result.error))
             ELSE Return(result.value)

encryptABE(module, load, publicParams, policy, message, rand) ==
  LET st == initABE(module, load)
  IN IF st.error # NULL THEN Throw(st.error)
     ELSE IF st.wasmModule = NULL THEN Throw(NotInitialized("ABE module not initialized"))
     ELSE LET result == ABE_encrypt(publicParams, policy, message, rand)
          IN IF result.kind = "throw" THEN Throw(WrapError("ABE encrypt failed", result.error))
             ELSE Return(result.value)

\* faulty variant: an engine error is swallowed and the masked bytes returned
decryptABE_ReturnsGarbage(module, load, privateKey, ciphertext) ==
  LET st == initABE(module, load)
  IN IF st.error # NULL THEN Throw(st.error)
     ELSE IF st.wasmModule = NULL THEN Throw(NotInitialized("ABE module not initialized"))
     ELSE LET result == ABE_decrypt(privateKey, ciphertext)
          IN IF result.kind = "throw" THEN Return(Bytes(ciphertext.V))
             ELSE Return(result.value)

decryptABE(module, load, privateKey, ciphertext) ==
  LET st == initABE(module, load)
  IN IF st.error # NULL THEN Throw(st.error)
     ELSE IF st.wasmModule = NULL THEN Throw(NotInitialized("ABE module not initialized"))
     ELSE LET result == ABE_decrypt(privateKey, ciphertext)
          IN IF result.kind = "throw" THEN Throw(WrapError("ABE decrypt failed", result.error))
             ELSE Return(result.value)

generateKPABEKeyPair(module, load, rand) ==
  LET st == initABE(module, load)
  IN IF st.error # NULL THEN Throw(st.error)
     ELSE IF st.wasmModule = NULL THEN Throw(NotInitialized("ABE module not initialized"))
     ELSE LET result == KPABE_setup(rand)
          IN IF result.kind = "throw"
             THEN Throw(WrapError("KP-ABE key pair generation failed", result.error))
             ELSE IF result.value = NULL
                  THEN Throw([context |-> "KP-ABE key pair generation failed",
                              kind |-> "MissingResult"])
             ELSE IF result.value.master_key = NULL \/ result.value.public_params = NULL
                  THEN Throw([context |-> "KP-ABE key pair generation failed",
                              kind |-> "MissingResult"])
                  ELSE Return([masterKey |-> result.value.master_key,
                               publicParams |-> result.value.public_params])

\* faulty variant: the key lists its attributes in reverse order
extractKPABEKey_Reversed(module, load, masterKey, policy) ==
  LET st == initABE(module, load)
  IN IF st.error # NULL THEN Throw(st.error)
     ELSE IF st.wasmModule = NULL THEN Throw(NotInitialized("ABE module not initialized"))
     ELSE LET privateKey == KPABE_key_gen(masterKey, policy)
              n == IF privateKey.kind = "throw" THEN 0 ELSE Len(privateKey.value.attributes)
          IN IF privateKey.kind = "throw"
             THEN Throw(WrapError("KP-ABE key extraction failed", privateKey.error))
             ELSE Return([privateKey.value EXCEPT
                            !.attributes = [i \in 1..n |-> privateKey.value.attributes[n + 1 - i]],
                            !.key = [i \in 1..n |-> privateKey.value.key[n + 1 - i]]])

extractKPABEKey(module, load, masterKey, policy) ==
  LET st == initABE(module, load)
  IN IF st.error # NULL THEN Throw(st.error)
     ELSE IF st.wasmModule = NULL THEN Throw(NotInitialized("ABE module not initialized"))
     ELSE LET privateKey == KPABE_key_gen(masterKey, policy)
          IN IF privateKey.kind = "throw"
             THEN Throw(WrapError("KP-ABE key extraction failed", privateKey.error))
             ELSE IF privateKey.value = NULL
                  THEN Throw([context |-> "KP-ABE key extraction failed", kind |-> "MissingResult"])
                  ELSE Return(privateKey.value)

encryptKPABE(module, load, publicParams, attributes, message, rand) ==
  LET st == initABE(module, load)
  IN IF st.error # NULL THEN Throw(st.error)
     ELSE IF st.wasmModule = NULL THEN Throw(NotInitialized("ABE module not initialized"))
     ELSE LET result == KPABE_encrypt(publicParams, attributes, message, rand)
          IN IF result.kind = "throw" THEN Throw(WrapError("KP-ABE encrypt failed", result.error))
             ELSE Return(result.value)

decryptKPABE(module, load, privateKey, ciphertext) ==
  LET st == initABE(module, load)
  IN IF st.error # NULL THEN Throw(st.error)
     ELSE IF st.wasmModule = NULL THEN Throw(NotInitialized("ABE module not initialized"))
     ELSE LET result == KPABE_decrypt(privateKey, ciphertext)
          IN IF result.kind = "throw" THEN Throw(WrapError("KP-ABE decrypt failed", result.error))
             ELSE Return(result.value)

(***************************************************************************)
(* src/symmetric/aes.ts and src/symmetric/chacha20.ts: authenticated       *)
(* encryption over the ciphers of @noble/ciphers.  A cipher of the library *)
(* is modelled by its contract: encrypt appends to the ciphertext the tag  *)
(* of key, nonce and ciphertext; decrypt computes that tag again and       *)
(* throws when the one appended is another.                                *)
(***************************************************************************)
AES_KEY_LENGTH == 256

AES_IV_LENGTH == 12

AES_TAG_LENGTH == 16

CHACHA20_KEY_LENGTH == 256

CHACHA20_NONCE_LENGTH == 24

POLY1305_TAG_LENGTH == 16

\* new Uint8Array(n).fill(b)
Fill(n, b) == [i \in 1..n |-> b]

RECURSIVE SumBytes(_)
SumBytes(b) == IF b = <<>> THEN 0 ELSE Head(b) + SumBytes(Tail(b))

Keystream(key, nonce, n) == [i \in 1..n |-> (Head(key) + Head(nonce) + i) % 2]

ComputeTag(key, nonce, data, tagLength) ==
  [j \in 1..tagLength |->
     (Head(key) + (j + 1) * Head(nonce) + j * SumBytes(data) + Len(data)) % 2]

\* gcm(key, iv).encrypt / xchacha20poly1305(key, nonce).encrypt
CipherEncrypt(key, nonce, plaintext, tagLength) ==
  LET data == XorBytes(plaintext, Keystream(key, nonce, Len(plaintext)))
  IN data \o ComputeTag(key, nonce, data, tagLength)

\* gcm(key, iv).decrypt / xchacha20poly1305(key, nonce).decrypt
CipherDecrypt(key, nonce, encrypted, tagLength) ==
  IF Len(encrypted) < tagLength
  THEN Throw([message |-> "invalid ciphertext length", expected |-> tagLength,
              got |-> Len(encrypted)])
  ELSE LET data == SubSeq(encrypted, 1, Len(encrypted) - tagLength)
           tag == SubSeq(encrypted, Len(encrypted) - tagLength + 1, Len(encrypted))
       IN IF tag # ComputeTag(key, nonce, data, tagLength)
          THEN Throw([message |-> "invalid tag", expected |-> tagLength, got |-> tagLength])
          ELSE Return(XorBytes(data, Keystream(key, nonce, Len(data))))

\* new Error(`Invalid ... length: expected ${expected} bytes, got ${got}`)
InvalidLength(what, expected, got) ==
  Throw([message |-> what, expected |-> expected, got |-> got])

\* new Error("Authentication failed: data may have been tampered with")
AuthenticationFailed == Throw([message |-> "Authentication failed"])

\* iv is NULL when the caller leaves it out, and randomIV is what randomBytes
\* gives then
encryptAES(plaintext, key, iv, randomIV) ==
  IF Len(key) # AES_KEY_LENGTH \div 8
  THEN InvalidLength("Invalid key length", AES_KEY_LENGTH \div 8, Len(key))
  ELSE LET initializationVector == IF iv # NULL THEN iv.bytes ELSE randomIV
       IN IF Len(initializationVector) # AES_IV_LENGTH
          THEN InvalidLength("Invalid IV length", AES_IV_LENGTH, Len(initializationVector))
          ELSE LET encrypted == CipherEncrypt(key, initializationVector, plaintext,
                                              AES_TAG_LENGTH)
               IN Return([ciphertext |-> SubSeq(encrypted, 1, Len(encrypted) - AES_TAG_LENGTH),
                          authTag |-> SubSeq(encrypted, Len(encrypted) - AES_TAG_LENGTH + 1,
                                             Len(encrypted)),
                          iv |-> initializationVector])

\* faulty variant: a failed authentication yields an empty plaintext
decryptAES_SwallowsFailure(ciphertext, key, iv, authTag) ==
  IF Len(key) # AES_KEY_LENGTH \div 8
  THEN InvalidLength("Invalid key length", AES_KEY_LENGTH \div 8, Len(key))
  ELSE IF Len(iv) # AES_IV_LENGTH
  THEN InvalidLength("Invalid IV length", AES_IV_LENGTH, Len(iv))
  ELSE IF Len(authTag) # AES_TAG_LENGTH
  THEN InvalidLength("Invalid auth tag length", AES_TAG_LENGTH, Len(authTag))
  ELSE LET plaintext == CipherDecrypt(key, iv, ciphertext \o authTag, AES_TAG_LENGTH)
       IN IF plaintext.kind = "throw" THEN Return(<<>>) ELSE plaintext

decryptAES(ciphertext, key, iv, authTag) ==
  IF Len(key) # AES_KEY_LENGTH \div 8
  THEN InvalidLength("Invalid key length", AES_KEY_LENGTH \div 8, Len(key))
  ELSE IF Len(iv) # AES_IV_LENGTH
  THEN InvalidLength("Invalid IV length", AES_IV_LENGTH, Len(iv))
  ELSE IF Len(authTag) # AES_TAG_LENGTH
  THEN InvalidLength("Invalid auth tag length", AES_TAG_LENGTH, Len(authTag))
  ELSE LET plaintext == CipherDecrypt(key, iv, ciphertext \o authTag, AES_TAG_LENGTH)
       IN IF plaintext.kind = "throw" THEN AuthenticationFailed ELSE plaintext

encryptChaCha20(plaintext, key, nonce, randomNonce) ==
  IF Len(key) # CHACHA20_KEY_LENGTH \div 8
  THEN InvalidLength("Invalid key length", CHACHA20_KEY_LENGTH \div 8, Len(key))
  ELSE LET nonceValue == IF nonce # NULL THEN nonce.bytes ELSE randomNonce
       IN IF Len(nonceValue) # CHACHA20_NONCE_LENGTH
          THEN InvalidLength("Invalid nonce length", CHACHA20_NONCE_LENGTH, Len(nonceValue))
          ELSE LET encrypted == CipherEncrypt(key, nonceValue, plaintext, POLY1305_TAG_LENGTH)
               IN Return([ciphertext |->
                            SubSeq(encrypted, 1, Len(encrypted) - POLY1305_TAG_LENGTH),
                          authTag |->
                            SubSeq(encrypted, Len(encrypted) - POLY1305_TAG_LENGTH + 1,
                                   Len(encrypted)),
                          nonce |-> nonceValue])

decryptChaCha20(ciphertext, key, nonce, authTag) ==
  IF Len(key) # CHACHA20_KEY_LENGTH \div 8
  THEN InvalidLength("Invalid key length", CHACHA20_KEY_LENGTH \div 8, Len(key))
  ELSE IF Len(nonce) # CHACHA20_NONCE_LENGTH
  THEN InvalidLength("Invalid nonce length", CHACHA20_NONCE_LENGTH, Len(nonce))
  ELSE IF Len(authTag) # POLY1305_TAG_LENGTH
  THEN InvalidLength("Invalid auth tag length", POLY1305_TAG_LENGTH, Len(authTag))
  ELSE LET plaintext == CipherDecrypt(key, nonce, ciphertext \o authTag, POLY1305_TAG_LENGTH)
       IN IF plaintext.kind = "throw" THEN AuthenticationFailed ELSE plaintext

(***************************************************************************)
(* Searchable symmetric encryption (src/searchable/sse, the SWP scheme):   *)
(* a document is encrypted with AES under a key derived for it, and each   *)
(* of its keywords leaves the HMAC of the keyword under the master key as  *)
(* a tag.  HMAC-SHA256 of Web Crypto is modelled as a function that gives  *)
(* different tags for different keys or messages.                          *)
(***************************************************************************)
MaxKeywordLen == 1
MaxKeywords == 2
MaxDocuments == 2

SSE_MASTER_KEY_LENGTH == AES_KEY_LENGTH \div 8

SSE_TAG_LENGTH == 32

\* the code units of a keyword: a letter, an unpaired surrogate (U+D800) and
\* the replacement character (U+FFFD)
CodeUnits == {"A", "uD800", "uFFFD"}

Keywords == SeqsUpTo(CodeUnits, MaxKeywordLen)

KeywordLists == SeqsUpTo(Keywords, MaxKeywords)

\* new TextEncoder().encode(keyword): UTF-8, an unpaired surrogate is
\* replaced by U+FFFD before it is encoded
RECURSIVE TextEncode(_)
TextEncode(keyword) ==
  IF keyword = <<>> THEN <<>>
  ELSE (CASE Head(keyword) = "A" -> <<65>>
          [] Head(keyword) = "B" -> <<66>>
          [] Head(keyword) = " " -> <<32>>
          [] OTHER -> <<239, 191, 189>>)
         \o TextEncode(Tail(keyword))

\* crypto.subtle.sign("HMAC", key, message)
computeHMAC(key, text) ==
  [i \in 1..SSE_TAG_LENGTH |->
     CASE i = 1 -> Head(key)
       [] i = 2 -> Len(text)
       [] i > 2 /\ i - 2 <= Len(text) -> text[i - 2]
       [] OTHER -> 0]

generateSearchTag(masterKey, keyword) == computeHMAC(masterKey, TextEncode(keyword))

\* SHA-256, modelled as a function that tells two inputs apart by their
\* first and by their last byte
hashSHA256(input) ==
  [i \in 1..(AES_KEY_LENGTH \div 8) |->
     IF input = <<>> THEN i % 2 ELSE (input[1] + input[Len(input)] + i + 1) % 2]

deriveDataKey(masterKey, documentId) == hashSHA256(masterKey \o documentId)

encryptSSE(masterKey, documentId, plaintext, keywords, randomIV) ==
  IF Len(masterKey) # SSE_MASTER_KEY_LENGTH
  THEN InvalidLength("Invalid master key length", SSE_MASTER_KEY_LENGTH, Len(masterKey))
  ELSE LET dataKey == deriveDataKey(masterKey, documentId)
           encryptionResult == encryptAES(plaintext, dataKey, NULL, randomIV)
       IN IF encryptionResult.kind = "throw" THEN encryptionResult
          ELSE Return([ciphertext |-> encryptionResult.value.ciphertext,
                       authTag |-> encryptionResult.value.authTag,
                       iv |-> encryptionResult.value.iv,
                       keywordTags |-> [i \in 1..Len(keywords) |->
                                          generateSearchTag(masterKey, keywords[i])]])

generateSearchToken(masterKey, keyword) ==
  IF Len(masterKey) # SSE_MASTER_KEY_LENGTH
  THEN InvalidLength("Invalid master key length", SSE_MASTER_KEY_LENGTH, Len(masterKey))
  ELSE Return(generateSearchTag(masterKey, keyword))

\* the comparison loop of searchSSE
TagMatches(tag, searchTag) ==
  /\ Len(tag) = Len(searchTag)
  /\ \A i \in 1..Len(tag) : tag[i] = searchTag[i]

\* faulty variant: only the first tag of a document is compared
searchSSE_FirstTagOnly(searchTag, documents) ==
  IF Len(searchTag) # SSE_TAG_LENGTH
  THEN InvalidLength("Invalid search tag length", SSE_TAG_LENGTH, Len(searchTag))
  ELSE LET matches(doc) == doc.keywordTags # <<>> /\ TagMatches(doc.keywordTags[1], searchTag)
       IN Return([documents |-> SelectSeq(documents, matches), searchTag |-> searchTag])

searchSSE(searchTag, documents) ==
  IF Len(searchTag) # SSE_TAG_LENGTH
  THEN InvalidLength("Invalid search tag length", SSE_TAG_LENGTH, Len(searchTag))
  ELSE LET matches(doc) == \E t \in 1..Len(doc.keywordTags) :
                             TagMatches(doc.keywordTags[t], searchTag)
       IN Return([documents |-> SelectSeq(documents, matches), searchTag |-> searchTag])

decryptSSE(masterKey, documentId, document) ==
  IF Len(masterKey) # SSE_MASTER_KEY_LENGTH
  THEN InvalidLength("Invalid master key length", SSE_MASTER_KEY_LENGTH, Len(masterKey))
  ELSE decryptAES(document.ciphertext, deriveDataKey(masterKey, documentId), document.iv,
                  document.authTag)

(***************************************************************************)
(* Signatures: src/asymmetric/rsa.ts over node-forge and                   *)
(* src/asymmetric/ecc.ts over @noble/curves.  The libraries are modelled   *)
(* by their contract.  A signature is the byte string its hexadecimal text *)
(* denotes: the signing key, the hash algorithm and the message digested,  *)
(* one byte each, so that a change of one byte is a signature for another  *)
(* key or another digest and a cut or extended one has not the length the  *)
(* key asks for.                                                           *)
(***************************************************************************)
KeyPairIds == 1..2

\* keyPair.publicKey of generateRsaKeyPair: PEM text, and text that is no PEM
PublicKeyPem(k) == [type |-> "pem", key |-> k]

InvalidKeyText == [type |-> "text", key |-> NULL]

\* forge.pki.publicKeyFromPem
publicKeyFromPem(pem) ==
  IF pem.type = "pem" THEN Return(pem.key)
  ELSE Throw([message |-> "Invalid PEM formatted message."])

HashAlgorithms == {"SHA-256", "SHA-384", "sha1", "MD5"}

\* algorithm.toLowerCase().replace("-", "")
AlgName(algorithm) ==
  CASE algorithm = "SHA-256" -> "sha256"
    [] algorithm = "SHA-384" -> "sha384"
    [] algorithm = "SHA-512" -> "sha512"
    [] algorithm = "sha1" -> "sha1"
    [] algorithm = "MD5" -> "md5"

SupportedAlgName(algName) == algName \in {"sha256", "sha384", "sha512", "sha1"}

AlgCode(algName) ==
  CASE algName = "sha256" -> 1 [] algName = "sha384" -> 2
    [] algName = "sha512" -> 3 [] algName = "sha1" -> 4

SignedMessages == {<<0>>, <<1>>}

\* md.digest() of the message under the chosen hash: the code of the hash
\* and the content digested
MessageDigest(algName, text) == <<AlgCode(algName), 10 + Head(text)>>

\* the length in bytes of an RSA signature: that of the modulus
RSA_SIGNATURE_LENGTH == 3

\* privateKey.sign(md): the digest in an encryption block under the key
RsaSign(md, key) == <<key>> \o md

\* publicKey.verify(digest, signature) of node-forge: the signature must be
\* as long as the modulus, it must open to a well-formed encryption block
\* under the key, and the digest in the block is compared
RsaVerify(digest, signature, key) ==
  IF Len(signature) # RSA_SIGNATURE_LENGTH
  THEN Throw([message |-> "Encrypted message length is invalid."])
  ELSE IF signature[1] # key
  THEN Throw([message |-> "Encryption block is invalid."])
  ELSE Return(digest = Tail(signature))

UnsupportedHash == Throw([message |-> "Unsupported hash algorithm"])

signRSA(text, key, algorithm) ==
  IF ~SupportedAlgName(AlgName(algorithm))
  THEN Throw([message |-> "RSA signing failed: Unsupported hash algorithm"])
  ELSE Return(RsaSign(MessageDigest(AlgName(algorithm), text), key))

\* verifyRSA without the branch of its catch block that answers false
verifyRSA_RethrowsAll(text, signature, publicKeyPem, algorithm) ==
  LET publicKey == publicKeyFromPem(publicKeyPem)
      algName == AlgName(algorithm)
      body == IF publicKey.kind = "throw" THEN publicKey
              ELSE IF ~SupportedAlgName(algName) THEN UnsupportedHash
              ELSE RsaVerify(MessageDigest(algName, text), signature, publicKey.value)
  IN IF body.kind = "return" THEN body
     ELSE Throw([message |-> "RSA verification failed: " \o body.error.message])

verifyRSA(text, signature, publicKeyPem, algorithm) ==
  LET publicKey == publicKeyFromPem(publicKeyPem)
      algName == AlgName(algorithm)
      body == IF publicKey.kind = "throw" THEN publicKey
              ELSE IF ~SupportedAlgName(algName) THEN UnsupportedHash
              ELSE RsaVerify(MessageDigest(algName, text), signature, publicKey.value)
  IN IF body.kind = "return" THEN body
     ELSE IF body.error.message = "Encryption block is invalid."
     THEN Return(FALSE)
     ELSE Throw([message |-> "RSA verification failed: " \o body.error.message])

Curves == {"secp256k1", "ed25519"}

\* the length in bytes of a signature of a curve
CURVE_SIGNATURE_LENGTH == 2

\* keyPair.publicKey of generateEccKeyPair as bytes, and bytes that are no
\* point of the curve
PublicKeyBytes(k) == <<k>>

InvalidKeyBytes == <<>>

UsableKeyBytes(publicKey) == \E k \in KeyPairIds : publicKey = PublicKeyBytes(k)

\* curveObj.sign(message, privateKey)
CurveSign(text, key) == <<key, 10 + Head(text)>>

\* how the curve library reports an operand it cannot use (a signature of
\* another length, bytes that are no public key): verify answers false or
\* it throws, with an error about the signature or about another matter
Rejections ==
  {Return(FALSE), Throw([message |-> "Invalid signature"]),
   Throw([message |-> "expected valid length"])}

\* curveObj.verify(signature, message, publicKey)
CurveVerify(signature, text, publicKey, rejection) ==
  IF Len(signature) # CURVE_SIGNATURE_LENGTH \/ ~UsableKeyBytes(publicKey)
  THEN rejection
  ELSE Return(signature = CurveSign(text, publicKey[1]))

signEcdsa(text, key, curve) == Return(CurveSign(text, key))

verifyEcdsa(text, signature, publicKey, curve, rejection) ==
  LET body == CurveVerify(signature, text, publicKey, rejection)
  IN IF body.kind = "return" THEN body
     ELSE IF body.error.message = "Invalid signature"
     THEN Return(FALSE)
     ELSE Throw([message |-> "ECDSA verification failed: " \o body.error.message])

(***************************************************************************)
(* src/utils/format: hexToBytes.  A string is the sequence of its          *)
(* characters, taken from a sample of digits, letters that are no digit,   *)
(* a sign and a blank.                                                     *)
(***************************************************************************)
MaxHexLen == 3

HexTextChars == {"0", "1", "a", "F", "g", "x", "-", " "}

HexTexts == SeqsUpTo(HexTextChars, MaxHexLen)

IsHexDigit(c) == c \in {"0", "1", "a", "F"}

HexDigitValue(c) ==
  CASE c = "0" -> 0 [] c = "1" -> 1 [] c = "a" -> 10 [] c = "F" -> 15

\* a number of JavaScript: NaN, or an integer
NaN == [isNaN |-> TRUE, value |-> 0]

Number(n) == [isNaN |-> FALSE, value |-> n]

\* hex.replace(/\s+/g, "")
RECURSIVE RemoveWhitespace(_)
RemoveWhitespace(s) ==
  IF s = <<>> THEN <<>>
  ELSE IF Head(s) = " " THEN RemoveWhitespace(Tail(s))
  ELSE <<Head(s)>> \o RemoveWhitespace(Tail(s))

\* the longest prefix of s made of hexadecimal digits
RECURSIVE DigitPrefix(_)
DigitPrefix(s) ==
  IF s = <<>> THEN <<>>
  ELSE IF IsHexDigit(Head(s)) THEN <<Head(s)>> \o DigitPrefix(Tail(s))
  ELSE <<>>

RECURSIVE DigitsValue(_)
DigitsValue(d) ==
  IF d = <<>> THEN 0
  ELSE 16 * DigitsValue(SubSeq(d, 1, Len(d) - 1)) + HexDigitValue(d[Len(d)])

\* parseInt(s, 16): an optional sign, an optional "0x", then the digits up
\* to the first character that is none; NaN when there is no digit
parseInt16(s) ==
  LET negative == IF s = <<>> THEN FALSE ELSE Head(s) = "-"
      signed == IF s = <<>> THEN FALSE ELSE Head(s) \in {"-", "+"}
      unsigned == IF signed THEN Tail(s) ELSE s
      prefixed == Len(unsigned) >= 2
                  /\ (IF Len(unsigned) >= 2
                      THEN unsigned[1] = "0" /\ unsigned[2] = "x" ELSE FALSE)
      digits == DigitPrefix(IF prefixed THEN Tail(Tail(unsigned)) ELSE unsigned)
  IN IF digits = <<>> THEN NaN
     ELSE IF negative THEN Number(0 - DigitsValue(digits)) ELSE Number(DigitsValue(digits))

\* bytes[i / 2] = byte: a Uint8Array keeps the value modulo 256
ToUint8(n) == n % 256

RECURSIVE ParsePairs(_, _)
ParsePairs(cleanHex, i) ==
  IF i >= Len(cleanHex) THEN Return(<<>>)
  ELSE LET byte == parseInt16(SubSeq(cleanHex, i + 1, i + 2))
       IN IF byte.isNaN
          THEN Throw([message |-> "Invalid hex string: invalid character", position |-> i])
          ELSE LET rest == ParsePairs(cleanHex, i + 2)
               IN IF rest.kind = "throw" THEN rest
                  ELSE Return(<<ToUint8(byte.value)>> \o rest.value)

hexToBytes(text) ==
  LET cleanHex == RemoveWhitespace(text)
  IN IF Len(cleanHex) % 2 # 0
     THEN Throw([message |-> "Invalid hex string: length must be even", position |-> NULL])
     ELSE ParsePairs(cleanHex, 0)

(***************************************************************************)
(* src/web/main.ts: cryptoApp(), the state of the web application.  The    *)
(* object it returns holds one state record per algorithm and the          *)
(* handlers the page calls.  A string is the sequence of its characters,   *)
(* so "" is <<>>; an error text is a heading with what was caught.         *)
(***************************************************************************)
EmptyString == <<>>

\* `${heading}: ${error.message}`
ErrorText(heading, e) == <<[heading |-> heading, caught |-> e]>>

\* an error text without anything caught
Notice(text) == <<[heading |-> text, caught |-> NULL]>>

\* the ?crypto= parameter of the page
SelectableCryptos ==
  {"", "aes", "ibe", "abe", "kpabe", "sse", "dilithium", "hash-sha512", "hash-compare"}

aesState0 ==
  [key |-> NULL, plaintext |-> EmptyString, plaintextBytes |-> NULL, ciphertext |-> NULL,
   iv |-> NULL, authTag |-> NULL, decrypted |-> EmptyString, decryptedBytes |-> NULL,
   error |-> EmptyString,
   showDetails |-> [keyGeneration |-> TRUE, encryption |-> TRUE, decryption |-> TRUE]]

chacha20State0 ==
  [key |-> NULL, plaintext |-> EmptyString, plaintextBytes |-> NULL, ciphertext |-> NULL,
   nonce |-> NULL, authTag |-> NULL, decrypted |-> EmptyString, decryptedBytes |-> NULL,
   error |-> EmptyString,
   showDetails |-> [keyGeneration |-> TRUE, encryption |-> TRUE, decryption |-> TRUE]]

poly1305State0 ==
  [key |-> NULL, message |-> EmptyString, messageBytes |-> NULL, tag |-> NULL,
   verificationMessage |-> EmptyString, verificationMessageBytes |-> NULL,
   verified |-> NULL, error |-> EmptyString,
   showDetails |-> [keyGeneration |-> TRUE, mac |-> TRUE, verification |-> TRUE]]

RSA_KEY_SIZE_2048 == 2048

rsaState0 ==
  [keyPair |-> NULL, keySize |-> RSA_KEY_SIZE_2048, mode |-> "encryption", plaintext |-> EmptyString,
   plaintextBytes |-> NULL, ciphertext |-> EmptyString, decrypted |-> EmptyString,
   decryptedBytes |-> NULL, signatureMessage |-> EmptyString,
   signatureMessageBytes |-> NULL, signature |-> EmptyString,
   verificationMessage |-> EmptyString, verificationMessageBytes |-> NULL,
   verified |-> NULL, error |-> EmptyString,
   showDetails |-> [keyGeneration |-> TRUE, encryption |-> TRUE, decryption |-> TRUE,
                    signing |-> TRUE, verification |-> TRUE]]

eccState0 ==
  [keyPair |-> NULL, curve |-> "secp256k1", mode |-> "signature",
   signatureMessage |-> EmptyString, signatureMessageBytes |-> NULL,
   signature |-> EmptyString, verificationMessage |-> EmptyString,
   verificationMessageBytes |-> NULL, verified |-> NULL, ecdhPrivateKey |-> EmptyString,
   ecdhPublicKey |-> EmptyString, sharedSecret |-> EmptyString, error |-> EmptyString,
   showDetails |-> [keyGeneration |-> TRUE, signing |-> TRUE, verification |-> TRUE,
                    ecdh |-> TRUE]]

PairingDetails ==
  [initialization |-> TRUE, keyGeneration |-> TRUE, keyExtraction |-> TRUE,
   encryption |-> TRUE, decryption |-> TRUE]

ibeState0 ==
  [initialized |-> FALSE, masterKey |-> NULL, publicParams |-> NULL,
   identity |-> EmptyString, privateKey |-> NULL, plaintext |-> EmptyString,
   plaintextBytes |-> NULL, ciphertext |-> NULL, decrypted |-> EmptyString,
   decryptedBytes |-> NULL, error |-> EmptyString, showDetails |-> PairingDetails]

abeState0 ==
  [initialized |-> FALSE, masterKey |-> NULL, publicParams |-> NULL, attributes |-> <<>>,
   attributeInput |-> EmptyString, privateKey |-> NULL, policy |-> EmptyString,
   plaintext |-> EmptyString, plaintextBytes |-> NULL, ciphertext |-> NULL,
   decrypted |-> EmptyString, decryptedBytes |-> NULL, decryptionSucceeded |-> NULL,
   error |-> EmptyString, showDetails |-> PairingDetails]

kpabeState0 ==
  [initialized |-> FALSE, masterKey |-> NULL, publicParams |-> NULL,
   policy |-> EmptyString, privateKey |-> NULL, attributes |-> <<>>,
   attributeInput |-> EmptyString, plaintext |-> EmptyString, plaintextBytes |-> NULL,
   ciphertext |-> NULL, decrypted |-> EmptyString, decryptedBytes |-> NULL,
   decryptionSucceeded |-> NULL, error |-> EmptyString, showDetails |-> PairingDetails]

hashState0(selectedAlgorithm, comparisonMode) ==
  [selectedAlgorithm |-> selectedAlgorithm, inputText |-> EmptyString,
   inputBytes |-> NULL, hash |-> NULL, processingTime |-> 0, error |-> EmptyString,
   siphashKey |-> NULL,
   showDetails |-> [input |-> TRUE, processing |-> TRUE, output |-> TRUE],
   comparisonMode |-> comparisonMode, comparisonResults |-> <<>>]

kyberState0 ==
  [initialized |-> FALSE, publicKey |-> NULL, privateKey |-> NULL, ciphertext |-> NULL,
   sharedSecret |-> NULL, decapsulatedSecret |-> NULL, error |-> EmptyString,
   showDetails |-> [initialization |-> TRUE, keyGeneration |-> TRUE,
                    encapsulation |-> TRUE, decapsulation |-> TRUE]]

SignatureState0 ==
  [initialized |-> FALSE, publicKey |-> NULL, privateKey |-> NULL,
   message |-> EmptyString, messageBytes |-> NULL, signature |-> NULL,
   verificationMessage |-> EmptyString, verificationMessageBytes |-> NULL,
   verified |-> NULL, error |-> EmptyString,
   showDetails |-> [initialization |-> TRUE, keyGeneration |-> TRUE, signing |-> TRUE,
                    verification |-> TRUE]]

dilithiumState0 == SignatureState0

falconState0 == SignatureState0

sseState0 ==
  [masterKey |-> NULL, documents |-> <<>>, documentId |-> NULL, plaintext |-> EmptyString,
   plaintextBytes |-> NULL, keywords |-> <<>>, keywordInput |-> EmptyString,
   encryptedDocument |-> NULL, searchKeyword |-> EmptyString, searchTag |-> NULL,
   searchResults |-> <<>>, selectedDocumentId |-> NULL, decrypted |-> EmptyString,
   decryptedBytes |-> NULL, error |-> EmptyString,
   showDetails |-> [keyGeneration |-> TRUE, encryption |-> TRUE, search |-> TRUE,
                    decryption |-> TRUE]]

\* the object cryptoApp() returns
cryptoApp(selectedCrypto) ==
  [selectedCrypto |-> selectedCrypto,
   aesState |-> aesState0, chacha20State |-> chacha20State0,
   poly1305State |-> poly1305State0, rsaState |-> rsaState0, eccState |-> eccState0,
   ibeState |-> ibeState0, abeState |-> abeState0, kpabeState |-> kpabeState0,
   hashState |-> hashState0("sha256", FALSE), kyberState |-> kyberState0,
   dilithiumState |-> dilithiumState0, falconState |-> falconState0,
   sseState |-> sseState0]

\* the algorithm and the comparison mode resetState derives from selectedCrypto
ResetAlgorithm(selectedCrypto) ==
  CASE selectedCrypto = "hash-sha256" -> "sha256"
    [] selectedCrypto = "hash-sha512" -> "sha512"
    [] selectedCrypto = "hash-sha3-256" -> "sha3-256"
    [] selectedCrypto = "hash-blake2b" -> "blake2b"
    [] selectedCrypto = "hash-blake3" -> "blake3"
    [] selectedCrypto = "siphash" -> "siphash"
    [] OTHER -> "sha256"

ResetComparisonMode(selectedCrypto) == selectedCrypto = "hash-compare"

\* resetState(): the records it assigns; dilithiumState and falconState are
\* not among them
resetState(this) ==
  [this EXCEPT
     !.aesState = aesState0, !.chacha20State = chacha20State0,
     !.poly1305State = poly1305State0, !.rsaState = rsaState0, !.eccState = eccState0,
     !.ibeState = ibeState0, !.abeState = abeState0, !.kpabeState = kpabeState0,
     !.hashState = hashState0(ResetAlgorithm(this.selectedCrypto),
                              ResetComparisonMode(this.selectedCrypto)),
     !.kyberState = kyberState0, !.sseState = sseState0]


(***************************************************************************)
(* The handlers of main.ts.  An async handler runs to its await, where the *)
(* call into the wrapper is made with the operands as they are then; it is *)
(* resumed with the completion of the call.  A handler that waits is a     *)
(* record of what it holds: its name, the operands of the call, and        *)
(* whether the state record it took for the left side of                   *)
(* `this.ibeState.privateKey = await ...` before the await has since been  *)
(* replaced by resetState (replaced).  Handle... is the handler up to its   *)
(* await, Resume... the handler from the await on.                          *)
(***************************************************************************)
Waits(handler, operands) ==
  [handler |-> handler, operands |-> operands, replaced |-> FALSE, beforeReset |-> FALSE]

\* what a handler leaves: the application object, the wait it is in (NULL
\* when it has returned) and what it has written to the console
Left(this, wait) == [this |-> this, wait |-> wait, written |-> <<>>]

LeftLogging(this, wait, written) == [this |-> this, wait |-> wait, written |-> written]

\* new TextEncoder().encode(str) and new TextDecoder().decode(bytes) on the
\* texts of the model: "a" is the byte 1 and "b" the byte 0
stringToBytes(str) == [i \in 1..Len(str) |-> IF str[i] = "a" THEN 1 ELSE 0]

bytesToString(bytes) == [i \in 1..Len(bytes) |-> IF bytes[i] = 1 THEN "a" ELSE "b"]

\* the catch block's `error instanceof Error ? error.message : String(error)`
Caught(c) == c.error

\* the model notes on a derived object the key or the parameters it was
\* made with
MadeWith(object, k) == object @@ [madeWith |-> k]

HandleInitializeIBE(this) ==
  Left([this EXCEPT !.ibeState.error = EmptyString], Waits("initializeIBE", NULL))

ResumeInitializeIBE(this, wait, c) ==
  IF c.kind = "return"
  THEN Left([this EXCEPT !.ibeState.initialized = TRUE], NULL)
  ELSE Left([this EXCEPT !.ibeState.error = ErrorText("initialization error", Caught(c)),
                         !.ibeState.initialized = FALSE], NULL)

\* generateIBEKeyPair up to its first await: that of initializeIBE(), or
\* that of the wrapper
HandleGenerateIBEKeyPair(this) ==
  IF ~this.ibeState.initialized
  THEN Left([this EXCEPT !.ibeState.error = EmptyString],
            Waits("generateIBEKeyPair:initializeIBE", NULL))
  ELSE Left(this, Waits("generateIBEKeyPair", NULL))

\* initializeIBE() has returned into generateIBEKeyPair: the try block
ResumeGenerateIBEKeyPairInitialized(this, wait, c) ==
  Left(ResumeInitializeIBE(this, wait, c).this, Waits("generateIBEKeyPair", NULL))

ResumeGenerateIBEKeyPair(this, wait, c) ==
  IF c.kind = "return"
  THEN Left([this EXCEPT !.ibeState.masterKey = c.value.masterKey,
                         !.ibeState.publicParams = c.value.publicParams,
                         !.ibeState.error = EmptyString], NULL)
  ELSE Left([this EXCEPT !.ibeState.error = ErrorText("key generation error", Caught(c))],
            NULL)

HandleExtractIBEKey(this) ==
  IF this.ibeState.masterKey = NULL \/ this.ibeState.identity = EmptyString
  THEN Left([this EXCEPT !.ibeState.error = Notice("master key and identity are needed")],
            NULL)
  ELSE Left(this, Waits("extractIBEKey", [masterKey |-> this.ibeState.masterKey,
                                          identity |-> this.ibeState.identity]))

\* `this.ibeState.privateKey = await ...`: the key is stored in the record
\* that was this.ibeState before the await
ResumeExtractIBEKey(this, wait, c) ==
  IF c.kind = "return"
  THEN Left([this EXCEPT !.ibeState.privateKey =
                            IF wait.replaced THEN @
                            ELSE MadeWith(c.value, wait.operands.masterKey),
                         !.ibeState.error = EmptyString], NULL)
  ELSE Left([this EXCEPT !.ibeState.error = ErrorText("key extraction error", Caught(c)),
                         !.ibeState.privateKey = NULL], NULL)

HandleEncryptIBE(this) ==
  IF this.ibeState.publicParams = NULL \/ this.ibeState.identity = EmptyString
     \/ this.ibeState.plaintext = EmptyString
  THEN Left(this, NULL)
  ELSE LET plaintextBytes == stringToBytes(this.ibeState.plaintext)
       IN Left([this EXCEPT !.ibeState.plaintextBytes = Bytes(plaintextBytes)],
               Waits("encryptIBE", [publicParams |-> this.ibeState.publicParams,
                                    identity |-> this.ibeState.identity,
                                    plaintextBytes |-> plaintextBytes]))

ResumeEncryptIBE(this, wait, c) ==
  IF c.kind = "return"
  THEN Left([this EXCEPT !.ibeState.ciphertext =
                            IF wait.replaced THEN @
                            ELSE MadeWith(c.value, wait.operands.publicParams),
                         !.ibeState.error = EmptyString], NULL)
  ELSE Left([this EXCEPT !.ibeState.error = ErrorText("encryption error", Caught(c)),
                         !.ibeState.ciphertext = NULL], NULL)

HandleDecryptIBE(this) ==
  IF this.ibeState.privateKey = NULL \/ this.ibeState.ciphertext = NULL
  THEN Left(this, NULL)
  ELSE Left(this, Waits("decryptIBE", [privateKey |-> this.ibeState.privateKey,
                                       ciphertext |-> this.ibeState.ciphertext]))

ResumeDecryptIBE(this, wait, c) ==
  IF c.kind = "return"
  THEN Left([this EXCEPT !.ibeState.decryptedBytes = c.value,
                         !.ibeState.decrypted = bytesToString(c.value.bytes),
                         !.ibeState.error = EmptyString], NULL)
  ELSE Left([this EXCEPT !.ibeState.error = ErrorText("decryption error", Caught(c)),
                         !.ibeState.decrypted = EmptyString,
                         !.ibeState.decryptedBytes = NULL], NULL)

(***************************************************************************)
(* State: the two wrapper modules' globals, and a caller that keeps the    *)
(* objects of one scenario (as the test files do): the key pair of the     *)
(* last Setup, the key of the last Extract with its input, the ciphertext  *)
(* of the last Encrypt with its inputs, and the completion of the last     *)
(* call.                                                                   *)
(***************************************************************************)
VARIABLES ibeModule, abeModule,
          scheme,
          masterKey, publicParams,
          keyInput, privateKey,
          encInput, message, ciphertext,
          ret

\* overlapping calls of the wrappers: the calls in flight, each at one of its
\* await points
VARIABLES calls

\* the wire format of the engine: an object in hand, the bytes that cross the
\* boundary for it and what is read back from them
VARIABLES codec

\* what has been written to the console, oldest first
VARIABLES console

\* authenticated encryption: what encryptAES / encryptChaCha20 returned last,
\* and the last decryption of it
VARIABLES aead

\* searchable encryption: the master key in use, the encrypted documents in
\* the order they were stored, and the last search
VARIABLES sse

\* signatures: the last signature made, and the last verification
VARIABLES signing

\* hexadecimal text: the last string given to hexToBytes and its completion
VARIABLES hex

\* the web application: the object cryptoApp() returned, and its handlers
\* that wait at an await, in the order they were called
VARIABLES app, waiting

\* the areas that only their own operations read or write
otherAreas == <<signing, hex, app, waiting>>

\* the state no call of a wrapper of ibe.ts / abe.ts reads or writes
outsideWrappers == <<codec, console, aead, sse, otherAreas>>

\* the state outside the sequential use of the pairing library
outsideLibrary == <<calls, outsideWrappers>>

vars == <<ibeModule, abeModule, scheme, masterKey, publicParams, keyInput, privateKey,
          encInput, message, ciphertext, ret, outsideLibrary>>

scenario == <<masterKey, publicParams, keyInput, privateKey, encInput, message, ciphertext>>

Completion(op, arg, prev, c) ==
  [op |-> op, arg |-> arg, prev |-> prev, kind |-> c.kind, value |-> c.value, error |-> c.error]

Init ==
  /\ ibeModule = [wasmModule |-> NULL, isInitialized |-> FALSE]
  /\ abeModule = [wasmModule |-> NULL, isInitialized |-> FALSE]
  /\ scheme = "none"
  /\ masterKey = NULL /\ publicParams = NULL
  /\ keyInput = NULL /\ privateKey = NULL
  /\ encInput = NULL /\ message = NULL /\ ciphertext = NULL
  /\ ret = NULL
  /\ calls = [c \in 1..MaxCalls |-> NULL]
  /\ codec = NULL
  /\ console = <<>>
  /\ aead = NULL
  /\ sse = NULL
  /\ signing = NULL
  /\ hex = NULL
  /\ app = NULL
  /\ waiting = <<>>

\* a Setup call starts a scenario: its result replaces the key pair and
\* nothing of the previous scenario is kept
StartScenario(c) ==
  /\ masterKey' = IF c.kind = "return" THEN c.value.masterKey ELSE NULL
  /\ publicParams' = IF c.kind = "return" THEN c.value.publicParams ELSE NULL
  /\ keyInput' = NULL /\ privateKey' = NULL
  /\ encInput' = NULL /\ message' = NULL /\ ciphertext' = NULL

\* an Extract / KeyGen call: the key it returns replaces the caller's key
KeepKey(input, c) ==
  /\ keyInput' = IF c.kind = "return" THEN input ELSE NULL
  /\ privateKey' = IF c.kind = "return" THEN c.value ELSE NULL
  /\ UNCHANGED <<masterKey, publicParams, encInput, message, ciphertext>>

\* an Encrypt call: the ciphertext it returns replaces the caller's ciphertext
KeepCiphertext(input, m, c) ==
  /\ encInput' = IF c.kind = "return" THEN input ELSE NULL
  /\ message' = IF c.kind = "return" THEN Bytes(m) ELSE NULL
  /\ ciphertext' = IF c.kind = "return" THEN c.value ELSE NULL
  /\ UNCHANGED <<masterKey, publicParams, keyInput, privateKey>>

\* the key the caller already holds for this very input, if any
HeldKeyFor(input) == IF keyInput = input THEN privateKey ELSE NULL

CallInitIBE ==
  /\ UNCHANGED outsideLibrary
  /\ \E load \in LoadChoices(ibeModule) :
    LET st == initIBE(ibeModule, load)
    IN /\ ibeModule' = ModuleAfter(st)
       /\ ret' = Completion("initIBE", NULL, NULL,
                            IF st.error = NULL THEN Return(NULL) ELSE Throw(st.error))
       /\ UNCHANGED <<abeModule, scheme, scenario>>

CallGenerateIBEKeyPair ==
  /\ UNCHANGED outsideLibrary
  /\ \E load \in LoadChoices(ibeModule), rand \in RandomDraws :
    LET c == generateIBEKeyPair(ibeModule, load, rand)
    IN /\ ibeModule' = ModuleAfter(initIBE(ibeModule, load))
       /\ ret' = Completion("generateIBEKeyPair", [load |-> load, entropy |-> rand.ok], NULL, c)
       /\ StartScenario(c)
       /\ scheme' = "IBE"
       /\ UNCHANGED abeModule

\* faulty variant: Extract blinds the key with a fresh random scalar
CallExtractIBEKey_Randomized ==
  /\ UNCHANGED outsideLibrary
  /\ scheme = "IBE" /\ masterKey # NULL
  /\ \E load \in LoadChoices(ibeModule), identity \in Identities, rand \in RandomDraws :
       LET blinded == [masterKey EXCEPT !.secret = @ + rand.scalar]
           c == extractIBEKey(ibeModule, load, blinded, identity)
           input == [identity |-> identity]
       IN /\ ibeModule' = ModuleAfter(initIBE(ibeModule, load))
          /\ ret' = Completion("extractIBEKey", input, HeldKeyFor(input), c)
          /\ KeepKey(input, c)
          /\ UNCHANGED <<abeModule, scheme>>

CallExtractIBEKey ==
  /\ UNCHANGED outsideLibrary
  /\ scheme = "IBE" /\ masterKey # NULL
  /\ \E load \in LoadChoices(ibeModule), identity \in Identities :
       LET c == extractIBEKey(ibeModule, load, masterKey, identity)
           input == [identity |-> identity]
       IN /\ ibeModule' = ModuleAfter(initIBE(ibeModule, load))
          /\ ret' = Completion("extractIBEKey", input, HeldKeyFor(input), c)
          /\ KeepKey(input, c)
          /\ UNCHANGED <<abeModule, scheme>>

CallEncryptIBE ==
  /\ UNCHANGED outsideLibrary
  /\ scheme = "IBE" /\ publicParams # NULL
  /\ \E load \in LoadChoices(ibeModule), identity \in Identities,
        m \in Messages, rand \in RandomDraws :
       LET c == encryptIBE(ibeModule, load, publicParams, identity, m, rand)
           input == [identity |-> identity]
       IN /\ ibeModule' = ModuleAfter(initIBE(ibeModule, load))
          /\ ret' = Completion("encryptIBE", [input |-> input, message |-> m, entropy |-> rand.ok],
                               NULL, c)
          /\ KeepCiphertext(input, m, c)
          /\ UNCHANGED <<abeModule, scheme>>

\* faulty variant: Decrypt unmasks the ciphertext in place
CallDecryptIBE_InPlace ==
  /\ UNCHANGED outsideLibrary
  /\ scheme = "IBE" /\ privateKey # NULL /\ ciphertext # NULL
  /\ \E load \in LoadChoices(ibeModule) :
       LET c == decryptIBE(ibeModule, load, privateKey, ciphertext)
       IN /\ ibeModule' = ModuleAfter(initIBE(ibeModule, load))
          /\ ret' = Completion("decryptIBE", NULL, NULL, c)
          /\ ciphertext' = IF c.kind = "return"
                           THEN [ciphertext EXCEPT !.V = c.value.bytes]
                           ELSE ciphertext
          /\ UNCHANGED <<abeModule, scheme, masterKey, publicParams, keyInput, privateKey,
                         encInput, message>>

CallDecryptIBE ==
  /\ UNCHANGED outsideLibrary
  /\ scheme = "IBE" /\ privateKey # NULL /\ ciphertext # NULL
  /\ \E load \in LoadChoices(ibeModule) :
       LET c == decryptIBE(ibeModule, load, privateKey, ciphertext)
       IN /\ ibeModule' = ModuleAfter(initIBE(ibeModule, load))
          /\ ret' = Completion("decryptIBE", NULL, NULL, c)
          /\ UNCHANGED <<abeModule, scheme, scenario>>

CallInitABE ==
  /\ UNCHANGED outsideLibrary
  /\ \E load \in LoadChoices(abeModule) :
    LET st == initABE(abeModule, load)
    IN /\ abeModule' = ModuleAfter(st)
       /\ ret' = Completion("initABE", NULL, NULL,
                            IF st.error = NULL THEN Return(NULL) ELSE Throw(st.error))
       /\ UNCHANGED <<ibeModule, scheme, scenario>>

CallGenerateABEKeyPair ==
  /\ UNCHANGED outsideLibrary
  /\ \E load \in LoadChoices(abeModule), rand \in RandomDraws :
    LET c == generateABEKeyPair(abeModule, load, rand)
    IN /\ abeModule' = ModuleAfter(initABE(abeModule, load))
       /\ ret' = Completion("generateABEKeyPair", [load |-> load, entropy |-> rand.ok], NULL, c)
       /\ StartScenario(c)
       /\ scheme' = "CP-ABE"
       /\ UNCHANGED ibeModule

CallExtractABEKey ==
  /\ UNCHANGED outsideLibrary
  /\ scheme = "CP-ABE" /\ masterKey # NULL
  /\ \E load \in LoadChoices(abeModule), attributes \in AttributeArrays :
       LET c == extractABEKey(abeModule, load, masterKey, attributes)
           input == [attributes |-> attributes]
       IN /\ abeModule' = ModuleAfter(initABE(abeModule, load))
          /\ ret' = Completion("extractABEKey", input, HeldKeyFor(input), c)
          /\ KeepKey(input, c)
          /\ UNCHANGED <<ibeModule, scheme>>

CallEncryptABE ==
  /\ UNCHANGED outsideLibrary
  /\ scheme = "CP-ABE" /\ publicParams # NULL
  /\ \E load \in LoadChoices(abeModule), policy \in PolicyStrings,
        m \in Messages, rand \in RandomDraws :
       LET c == encryptABE(abeModule, load, publicParams, policy, m, rand)
           input == [policy |-> policy]
       IN /\ abeModule' = ModuleAfter(initABE(abeModule, load))
          /\ ret' = Completion("encryptABE", [input |-> input, message |-> m, entropy |-> rand.ok],
                               NULL, c)
          /\ KeepCiphertext(input, m, c)
          /\ UNCHANGED <<ibeModule, scheme>>

CallDecryptABE ==
  /\ UNCHANGED outsideLibrary
  /\ scheme = "CP-ABE" /\ privateKey # NULL /\ ciphertext # NULL
  /\ \E load \in LoadChoices(abeModule) :
       LET c == decryptABE(abeModule, load, privateKey, ciphertext)
       IN /\ abeModule' = ModuleAfter(initABE(abeModule, load))
          /\ ret' = Completion("decryptABE", NULL, NULL, c)
          /\ UNCHANGED <<ibeModule, scheme, scenario>>

CallGenerateKPABEKeyPair ==
  /\ UNCHANGED outsideLibrary
  /\ \E load \in LoadChoices(abeModule), rand \in RandomDraws :
    LET c == generateKPABEKeyPair(abeModule, load, rand)
    IN /\ abeModule' = ModuleAfter(initABE(abeModule, load))
       /\ ret' = Completion("generateKPABEKeyPair", [load |-> load, entropy |-> rand.ok], NULL, c)
       /\ StartScenario(c)
       /\ scheme' = "KP-ABE"
       /\ UNCHANGED ibeModule

CallExtractKPABEKey ==
  /\ UNCHANGED outsideLibrary
  /\ scheme = "KP-ABE" /\ masterKey # NULL
  /\ \E load \in LoadChoices(abeModule), policy \in PolicyStrings :
       LET c == extractKPABEKey(abeModule, load, masterKey, policy)
           input == [policy |-> policy]
       IN /\ abeModule' = ModuleAfter(initABE(abeModule, load))
          /\ ret' = Completion("extractKPABEKey", input, HeldKeyFor(input), c)
          /\ KeepKey(input, c)
          /\ UNCHANGED <<ibeModule, scheme>>

CallEncryptKPABE ==
  /\ UNCHANGED outsideLibrary
  /\ scheme = "KP-ABE" /\ publicParams # NULL
  /\ \E load \in LoadChoices(abeModule), attributes \in AttributeArrays,
        m \in Messages, rand \in RandomDraws :
       LET c == encryptKPABE(abeModule, load, publicParams, attributes, m, rand)
           input == [attributes |-> attributes]
       IN /\ abeModule' = ModuleAfter(initABE(abeModule, load))
          /\ ret' = Completion("encryptKPABE", [input |-> input, message |-> m, entropy |-> rand.ok],
                               NULL, c)
          /\ KeepCiphertext(input, m, c)
          /\ UNCHANGED <<ibeModule, scheme>>

CallDecryptKPABE ==
  /\ UNCHANGED outsideLibrary
  /\ scheme = "KP-ABE" /\ privateKey # NULL /\ ciphertext # NULL
  /\ \E load \in LoadChoices(abeModule) :
       LET c == decryptKPABE(abeModule, load, privateKey, ciphertext)
       IN /\ abeModule' = ModuleAfter(initABE(abeModule, load))
          /\ ret' = Completion("decryptKPABE", NULL, NULL, c)
          /\ UNCHANGED <<ibeModule, scheme, scenario>>

Next ==
  \/ CallInitIBE
  \/ CallGenerateIBEKeyPair
  \/ CallExtractIBEKey
  \/ CallEncryptIBE
  \/ CallDecryptIBE
  \/ CallInitABE
  \/ CallGenerateABEKeyPair
  \/ CallExtractABEKey
  \/ CallEncryptABE
  \/ CallDecryptABE
  \/ CallGenerateKPABEKeyPair
  \/ CallExtractKPABEKey
  \/ CallEncryptKPABE
  \/ CallDecryptKPABE

Spec == Init /\ [][Next]_vars

(***************************************************************************)
(* testABE of abe.ts, the self-test of the module: it loads the module,    *)
(* adds 2 and 3 in the engine and reports whether the sum is 5.            *)
(***************************************************************************)
MaxLog == 1

\* add(a, b) of abe_wasm.js
add(a, b) == a + b

ConsoleError(text, error) == [level |-> "error", text |-> text, error |-> error]

\* the globals it leaves, its result and what it writes to the console
testABE(module, load) ==
  LET st == initABE(module, load)
  IN IF st.error # NULL
     THEN [module |-> ModuleAfter(st), completion |-> Return(FALSE),
           written |-> <<ConsoleError("ABE test failed:", st.error)>>]
     ELSE IF st.wasmModule = NULL
     THEN [module |-> ModuleAfter(st), completion |-> Return(FALSE), written |-> <<>>]
     ELSE [module |-> ModuleAfter(st), completion |-> Return(add(2, 3) = 5),
           written |-> <<>>]

CallTestABE ==
  /\ Len(console) < MaxLog
  /\ \E load \in LoadChoices(abeModule) :
       LET test == testABE(abeModule, load)
       IN /\ abeModule' = test.module
          /\ ret' = Completion("testABE", NULL, NULL, test.completion)
          /\ console' = console \o test.written
  /\ UNCHANGED <<ibeModule, scheme, scenario, calls, codec, aead, sse, otherAreas>>

\* the operations of the library together with the self-test
NextWithTest ==
  \/ Next
  \/ CallTestABE

SpecWithTest == Init /\ [][NextWithTest]_vars

(***************************************************************************)
(* Overlapping calls.  The wrappers are async functions: a call runs up to *)
(* its next await, then other calls may run.  The await points of a call   *)
(* are the loading of the module inside initIBE / initABE ("loading") and  *)
(* the return from `await initIBE()` into the wrapper ("initialized").     *)
(* The operands of Extract, Encrypt and Decrypt are those of one sample    *)
(* scenario.                                                               *)
(***************************************************************************)
CallIds == 1..MaxCalls

IBECalls == {"initIBE", "generateIBEKeyPair", "extractIBEKey", "encryptIBE", "decryptIBE"}

ABECalls == {"initABE", "generateABEKeyPair"}

DrawingCalls == {"generateIBEKeyPair", "encryptIBE", "generateABEKeyPair"}

SampleDraw == [ok |-> TRUE, scalar |-> 1]

SampleSetup == IBE_setup(SampleDraw).value

SampleIdentity == <<"A">>

SampleMessage == <<1>>

SampleKey == IBE_extract(SampleSetup.master_key, SampleIdentity).value

SampleCiphertext ==
  IBE_encrypt(SampleSetup.public_params, SampleIdentity, SampleMessage, SampleDraw).value

\* faulty variant: the module is loaded at every call
AlreadyInitialized_Never(module) == FALSE

\* if (isInitialized && wasmModule) return;
AlreadyInitialized(module) == module.isInitialized /\ module.wasmModule # NULL

\* faulty variant: a failed load clears the module
LoadAndInit_ClearsOnFailure(module, load, context) ==
  CASE load = "loadFails" ->
         [wasmModule |-> NULL, isInitialized |-> FALSE,
          error |-> [context |-> context, kind |-> "InitFailed"]]
    [] load = "initThrows" ->
         [wasmModule |-> NULL, isInitialized |-> FALSE,
          error |-> [context |-> context, kind |-> "InitFailed"]]
    [] OTHER ->
         [wasmModule |-> InitOutput, isInitialized |-> TRUE, error |-> NULL]

\* the try block of initIBE / initABE, entered whatever the globals are by now
LoadAndInit(module, load, context) ==
  CASE load = "loadFails" ->
         [wasmModule |-> module.wasmModule, isInitialized |-> module.isInitialized,
          error |-> [context |-> context, kind |-> "InitFailed"]]
    [] load = "initThrows" ->
         [wasmModule |-> InitOutput, isInitialized |-> module.isInitialized,
          error |-> [context |-> context, kind |-> "InitFailed"]]
    [] OTHER ->
         [wasmModule |-> InitOutput, isInitialized |-> TRUE, error |-> NULL]

InitContext(op) ==
  IF op \in IBECalls THEN "Failed to initialize IBE WebAssembly module"
  ELSE "Failed to initialize ABE WebAssembly module"

Globals(op) == IF op \in IBECalls THEN ibeModule ELSE abeModule

\* the wrapper from `await initIBE()` on: the check of wasmModule and the
\* engine call
Resume(op, wasm, rand) ==
  LET module == [wasmModule |-> wasm, isInitialized |-> TRUE]
  IN IF wasm = NULL
     THEN Throw(NotInitialized(IF op \in IBECalls THEN "IBE module not initialized"
                               ELSE "ABE module not initialized"))
     ELSE CASE op = "generateIBEKeyPair" -> generateIBEKeyPair(module, "ok", rand)
            [] op = "extractIBEKey" ->
                 extractIBEKey(module, "ok", SampleSetup.master_key, SampleIdentity)
            [] op = "encryptIBE" ->
                 encryptIBE(module, "ok", SampleSetup.public_params, SampleIdentity,
                            SampleMessage, rand)
            [] op = "decryptIBE" -> decryptIBE(module, "ok", SampleKey, SampleCiphertext)
            [] op = "generateABEKeyPair" -> generateABEKeyPair(module, "ok", rand)
            [] OTHER -> Return(NULL)

\* the same call run to completion with no other call in flight, from the
\* globals it found at its start
RunAlone(call) ==
  LET module == call.found
      load == call.load
      rand == call.rand
  IN CASE call.op = "initIBE" ->
            LET st == initIBE(module, load)
            IN IF st.error = NULL THEN Return(NULL) ELSE Throw(st.error)
       [] call.op = "initABE" ->
            LET st == initABE(module, load)
            IN IF st.error = NULL THEN Return(NULL) ELSE Throw(st.error)
       [] call.op = "generateIBEKeyPair" -> generateIBEKeyPair(module, load, rand)
       [] call.op = "extractIBEKey" ->
            extractIBEKey(module, load, SampleSetup.master_key, SampleIdentity)
       [] call.op = "encryptIBE" ->
            encryptIBE(module, load, SampleSetup.public_params, SampleIdentity,
                       SampleMessage, rand)
       [] call.op = "decryptIBE" -> decryptIBE(module, load, SampleKey, SampleCiphertext)
       [] OTHER -> generateABEKeyPair(module, load, rand)

IsInit(op) == op \in {"initIBE", "initABE"}

\* the calls on the module of op that are waiting for it to load
Loading(op) ==
  {d \in CallIds :
     IF calls[d] = NULL THEN FALSE
     ELSE calls[d].pc = "loading" /\ (calls[d].op \in IBECalls <=> op \in IBECalls)}

\* a call is made: it runs up to its first await
BeginCall(c) ==
  /\ calls[c] = NULL
  /\ \E op \in IBECalls \cup ABECalls,
        rand \in RandomDraws :
       /\ op \notin DrawingCalls => rand = SampleDraw
       /\ LET found == Globals(op)
              call == [op |-> op, rand |-> rand, found |-> found, load |-> "ok",
                       loaded |-> FALSE, result |-> NULL, during |-> Loading(op)]
          IN calls' = [calls EXCEPT ![c] =
               IF ~AlreadyInitialized(found) THEN call @@ [pc |-> "loading"]
               ELSE IF IsInit(op) THEN [call EXCEPT !.result = Return(NULL)] @@ [pc |-> "done"]
               ELSE call @@ [pc |-> "initialized"]]
  /\ UNCHANGED <<ibeModule, abeModule, scheme, scenario, ret, outsideWrappers>>

\* wasmInit() of a call settles: the rest of the try block of initIBE / initABE
FinishLoad(c) ==
  /\ calls[c] # NULL /\ calls[c].pc = "loading"
  /\ \E load \in LoadOutcomes :
       LET op == calls[c].op
           st == LoadAndInit(Globals(op), load, InitContext(op))
       IN /\ IF op \in IBECalls
             THEN ibeModule' = ModuleAfter(st) /\ UNCHANGED abeModule
             ELSE abeModule' = ModuleAfter(st) /\ UNCHANGED ibeModule
          /\ calls' = [calls EXCEPT ![c] =
               [@ EXCEPT !.load = load,
                         !.loaded = (load # "loadFails"),
                         !.pc = IF st.error # NULL \/ IsInit(op) THEN "done" ELSE "initialized",
                         !.result = IF st.error # NULL THEN Throw(st.error)
                                    ELSE IF IsInit(op) THEN Return(NULL) ELSE NULL]]
  /\ UNCHANGED <<scheme, scenario, ret, outsideWrappers>>

\* `await initIBE()` returns into the wrapper, which runs to its end
ResumeCall(c) ==
  /\ calls[c] # NULL /\ calls[c].pc = "initialized"
  /\ LET call == calls[c]
     IN calls' = [calls EXCEPT ![c] =
          [call EXCEPT !.pc = "done",
                       !.result = Resume(call.op, Globals(call.op).wasmModule, call.rand)]]
  /\ UNCHANGED <<ibeModule, abeModule, scheme, scenario, ret, outsideWrappers>>

NextAsync ==
  \/ \E c \in CallIds : BeginCall(c)
  \/ \E c \in CallIds : FinishLoad(c)
  \/ \E c \in CallIds : ResumeCall(c)

SpecAsync == Init /\ [][NextAsync]_vars

(***************************************************************************)
(* Serialization (spec 6): the byte layout of the four object types as     *)
(* they cross the wasm boundary.  A unit of the wire carries one binary    *)
(* digit of a fixed-width field, a length, or one character of a label.    *)
(***************************************************************************)
\* the width of a scalar and of a group element: the size of the modulus
FieldWidth == 3

FieldElements == 0..(GroupOrder - 1)

\* the points a key, a parameter or a ciphertext may carry: not infinity
NonTrivialPoints == 1..(GroupOrder - 1)

Parsed(v, rest) == [ok |-> TRUE, value |-> v, rest |-> rest]

InvalidEncoding == [ok |-> FALSE, value |-> NULL, rest |-> <<>>]

Remainder(wire, n) == SubSeq(wire, n + 1, Len(wire))

\* faulty variant: the least significant digit is written first
encodeFixed_LittleEndian(n) == [i \in 1..FieldWidth |-> (n \div 2^(i - 1)) % 2]

\* a fixed-size big-endian integer
encodeFixed(n) == [i \in 1..FieldWidth |-> (n \div 2^(FieldWidth - i)) % 2]

RECURSIVE bigEndian(_, _)
bigEndian(digits, acc) ==
  IF digits = <<>> THEN acc ELSE bigEndian(Tail(digits), 2 * acc + Head(digits))

\* faulty variant: the value read is reduced into the group instead of checked
takeFixed_Reduces(wire, valid) ==
  IF Len(wire) < FieldWidth THEN Parsed(0, <<>>)
  ELSE Parsed(bigEndian([i \in 1..FieldWidth |-> wire[i] % 2], 0) % GroupOrder,
              Remainder(wire, FieldWidth))

\* a fixed-width field at the head of the wire, whose value must be in `valid`
takeFixed(wire, valid) ==
  IF Len(wire) < FieldWidth THEN InvalidEncoding
  ELSE LET digits == SubSeq(wire, 1, FieldWidth)
       IN IF \E i \in 1..FieldWidth : digits[i] \notin 0..1 THEN InvalidEncoding
          ELSE LET n == bigEndian(digits, 0)
               IN IF n \in valid THEN Parsed(n, Remainder(wire, FieldWidth))
                  ELSE InvalidEncoding

takeScalar(wire) == takeFixed(wire, FieldElements)

takePoint(wire) == takeFixed(wire, NonTrivialPoints)

takeGT(wire) == takeFixed(wire, FieldElements)

\* a length-prefixed byte string
encodeBytes(b) == <<Len(b)>> \o b

takeBytes(wire) ==
  IF wire = <<>> \/ Len(wire) < 1 + Head(wire) THEN InvalidEncoding
  ELSE LET b == SubSeq(wire, 2, 1 + Head(wire))
       IN IF \E i \in 1..Len(b) : b[i] \notin Byte THEN InvalidEncoding
          ELSE Parsed(b, Remainder(wire, 1 + Head(wire)))

\* a label: its length, then its characters
LabelCodes == {CharCode(c) : c \in LabelChars}

CharOf(code) == CHOOSE c \in LabelChars : CharCode(c) = code

encodeLabel(label) == <<Len(label)>> \o [i \in 1..Len(label) |-> CharCode(label[i])]

takeLabel(wire) ==
  IF wire = <<>> \/ Len(wire) < 1 + Head(wire) THEN InvalidEncoding
  ELSE LET codes == SubSeq(wire, 2, 1 + Head(wire))
       IN IF \E i \in 1..Len(codes) : codes[i] \notin LabelCodes THEN InvalidEncoding
          ELSE Parsed([i \in 1..Len(codes) |-> CharOf(codes[i])],
                      Remainder(wire, 1 + Head(wire)))

\* the attribute list: the number of labels, then the labels in insertion order
RECURSIVE encodeLabels(_)
encodeLabels(labels) ==
  IF labels = <<>> THEN <<>> ELSE encodeLabel(Head(labels)) \o encodeLabels(Tail(labels))

encodeLabelList(labels) == <<Len(labels)>> \o encodeLabels(labels)

RECURSIVE takeLabels(_, _)
takeLabels(wire, count) ==
  IF count = 0 THEN Parsed(<<>>, wire)
  ELSE LET first == takeLabel(wire)
       IN IF ~first.ok THEN InvalidEncoding
          ELSE LET others == takeLabels(first.rest, count - 1)
               IN IF ~others.ok THEN InvalidEncoding
                  ELSE Parsed(<<first.value>> \o others.value, others.rest)

takeLabelList(wire) ==
  IF wire = <<>> THEN InvalidEncoding ELSE takeLabels(Tail(wire), Head(wire))

\* the components of an ABE key: one point per label
RECURSIVE encodePoints(_)
encodePoints(points) ==
  IF points = <<>> THEN <<>> ELSE encodeFixed(Head(points)) \o encodePoints(Tail(points))

RECURSIVE takePoints(_, _)
takePoints(wire, count) ==
  IF count = 0 THEN Parsed(<<>>, wire)
  ELSE LET first == takePoint(wire)
       IN IF ~first.ok THEN InvalidEncoding
          ELSE LET others == takePoints(first.rest, count - 1)
               IN IF ~others.ok THEN InvalidEncoding
                  ELSE Parsed(<<first.value>> \o others.value, others.rest)

\* the objects of the wire contract, by scheme
WireKinds == {"IBEMasterKey", "IBEPublicParams", "IBEPrivateKey", "IBECiphertext",
              "ABEMasterKey", "ABEPublicParams", "ABEPrivateKey", "ABECiphertext"}

KindOf(x) ==
  IF x.type # "Uint8Array" THEN x.type
  ELSE IF "tag" \in DOMAIN x THEN "ABECiphertext" ELSE "IBECiphertext"

encodeMasterKey(x) == encodeFixed(x.secret)

encodePublicParams(x) ==
  encodeFixed(x.params.generatorPoint) \o encodeFixed(x.params.publicPoint)

encodeIBEPrivateKey(x) == encodeFixed(x.key)

encodeABEPrivateKey(x) == encodeLabelList(x.attributes) \o encodePoints(x.key)

encodeIBECiphertext(x) == encodeFixed(x.U) \o encodeBytes(x.V)

encodeABECiphertext(x) ==
  encodeFixed(x.U) \o encodeFixed(x.tag.key) \o encodeBytes(x.tag.checksum)
    \o encodeLabelList(x.attributes) \o encodeBytes(x.V)

encode(x) ==
  CASE KindOf(x) \in {"IBEMasterKey", "ABEMasterKey"} -> encodeMasterKey(x)
    [] KindOf(x) \in {"IBEPublicParams", "ABEPublicParams"} -> encodePublicParams(x)
    [] KindOf(x) = "IBEPrivateKey" -> encodeIBEPrivateKey(x)
    [] KindOf(x) = "ABEPrivateKey" -> encodeABEPrivateKey(x)
    [] KindOf(x) = "IBECiphertext" -> encodeIBECiphertext(x)
    [] OTHER -> encodeABECiphertext(x)

\* a decoder accepts the wire only if nothing is left over
Whole(parsed, value) ==
  IF parsed.ok /\ parsed.rest = <<>> THEN Return(value)
  ELSE Throw(EngineError("InvalidEncoding"))

Malformed == Throw(EngineError("InvalidEncoding"))

decodeMasterKey(kind, wire) ==
  LET secret == takeScalar(wire)
  IN Whole(secret, [type |-> kind, secret |-> secret.value])

decodePublicParams(kind, wire) ==
  LET generator == takePoint(wire)
  IN IF ~generator.ok THEN Malformed
     ELSE LET public == takePoint(generator.rest)
          IN Whole(public, [type |-> kind,
                            params |-> [generatorPoint |-> generator.value,
                                        publicPoint |-> public.value]])

decodeIBEPrivateKey(wire) ==
  LET point == takePoint(wire)
  IN Whole(point, [type |-> "IBEPrivateKey", key |-> point.value])

decodeABEPrivateKey(wire) ==
  LET labels == takeLabelList(wire)
  IN IF ~labels.ok THEN Malformed
     ELSE LET points == takePoints(labels.rest, Len(labels.value))
          IN Whole(points, [type |-> "ABEPrivateKey", key |-> points.value,
                            attributes |-> labels.value])

decodeIBECiphertext(wire) ==
  LET U == takePoint(wire)
  IN IF ~U.ok THEN Malformed
     ELSE LET V == takeBytes(U.rest)
          IN Whole(V, [type |-> "Uint8Array", U |-> U.value, V |-> V.value])

decodeABECiphertext(wire) ==
  LET U == takePoint(wire)
  IN IF ~U.ok THEN Malformed
     ELSE LET key == takeGT(U.rest)
     IN IF ~key.ok THEN Malformed
     ELSE LET checksum == takeBytes(key.rest)
     IN IF ~checksum.ok THEN Malformed
     ELSE LET labels == takeLabelList(checksum.rest)
     IN IF ~labels.ok THEN Malformed
     ELSE LET V == takeBytes(labels.rest)
          IN Whole(V, [type |-> "Uint8Array", U |-> U.value, V |-> V.value,
                       tag |-> IntegrityTag(key.value, checksum.value),
                       attributes |-> labels.value])

decode(kind, wire) ==
  CASE kind \in {"IBEMasterKey", "ABEMasterKey"} -> decodeMasterKey(kind, wire)
    [] kind \in {"IBEPublicParams", "ABEPublicParams"} -> decodePublicParams(kind, wire)
    [] kind = "IBEPrivateKey" -> decodeIBEPrivateKey(wire)
    [] kind = "ABEPrivateKey" -> decodeABEPrivateKey(wire)
    [] kind = "IBECiphertext" -> decodeIBECiphertext(wire)
    [] OTHER -> decodeABECiphertext(wire)

(***************************************************************************)
(* The objects the engine constructs, and their way over the wire: an      *)
(* object is constructed, encoded, decoded on the other side of the        *)
(* boundary and encoded again.                                             *)
(***************************************************************************)
Values(completions) == {c.value : c \in {d \in completions : d.kind = "return"}}

Draws == {rand \in RandomDraws : rand.ok}

IBEKeyPairs == Values({IBE_setup(rand) : rand \in Draws})

ABEKeyPairs == Values({ABE_setup(rand) : rand \in Draws})

ConstructedObjects ==
  {p.master_key : p \in IBEKeyPairs \cup ABEKeyPairs}
    \cup {p.public_params : p \in IBEKeyPairs \cup ABEKeyPairs}
    \cup Values({IBE_extract(p.master_key, id) : p \in IBEKeyPairs, id \in Identities})
    \cup Values({IBE_encrypt(p.public_params, id, m, rand) :
                   p \in IBEKeyPairs, id \in Identities, m \in Messages, rand \in Draws})
    \cup Values({ABE_key_gen(p.master_key, a) : p \in ABEKeyPairs, a \in AttributeArrays})
    \cup Values({KPABE_key_gen(p.master_key, s) : p \in ABEKeyPairs, s \in PolicyStrings})
    \cup Values({ABE_encrypt(p.public_params, s, m, rand) :
                   p \in ABEKeyPairs, s \in PolicyStrings, m \in Messages, rand \in Draws})
    \cup Values({KPABE_encrypt(p.public_params, a, m, rand) :
                   p \in ABEKeyPairs, a \in AttributeArrays, m \in Messages, rand \in Draws})

outsideCodec ==
  <<ibeModule, abeModule, scheme, scenario, ret, calls, console, aead, sse, otherAreas>>

\* the engine hands out an object
Construct ==
  /\ codec = NULL
  /\ \E x \in ConstructedObjects :
       codec' = [object |-> x, kind |-> KindOf(x), encoded |-> NULL,
                 decoded |-> NULL, reencoded |-> NULL, outcome |-> NULL]
  /\ UNCHANGED outsideCodec

Encode ==
  /\ codec # NULL /\ codec.object # NULL /\ codec.encoded = NULL
  /\ codec' = [codec EXCEPT !.encoded = encode(codec.object)]
  /\ UNCHANGED outsideCodec

Decode ==
  /\ codec # NULL /\ codec.object # NULL
  /\ codec.encoded # NULL /\ codec.decoded = NULL
  /\ codec' = [codec EXCEPT !.decoded = decode(codec.kind, codec.encoded)]
  /\ UNCHANGED outsideCodec

ReEncode ==
  /\ codec # NULL /\ codec.object # NULL
  /\ codec.decoded # NULL /\ codec.decoded.kind = "return"
  /\ codec.reencoded = NULL
  /\ codec' = [codec EXCEPT !.reencoded = encode(codec.decoded.value)]
  /\ UNCHANGED outsideCodec

(***************************************************************************)
(* Bytes from outside.  A key, the public parameters or a ciphertext       *)
(* reaches an operation as bytes the caller supplies: the bytes of an      *)
(* object as they were written, cut short, extended or changed in one      *)
(* place.  The engine reads its operand from them before it uses it; the   *)
(* other operands of the operation are those of a sample scenario.         *)
(***************************************************************************)
\* the values a unit of supplied bytes may have: the digits, and one beyond
WireUnits == 0..2

Edits(wire) ==
  {wire}
    \cup {SubSeq(wire, 1, Len(wire) - 1) : n \in {m \in {1} : wire # <<>>}}
    \cup {Append(wire, u) : u \in WireUnits}
    \cup {[wire EXCEPT ![i] = u] : i \in 1..Len(wire), u \in WireUnits}

SampleAttributes == <<SampleIdentity>>

SampleABESetup == ABE_setup(SampleDraw).value

SampleABEKey == ABE_key_gen(SampleABESetup.master_key, SampleAttributes).value

SampleABECiphertext ==
  ABE_encrypt(SampleABESetup.public_params, SampleIdentity, SampleMessage, SampleDraw).value

\* the operation of the engine that takes an operand of this kind
Operation(kind, x) ==
  CASE kind = "IBEMasterKey" -> IBE_extract(x, SampleIdentity)
    [] kind = "IBEPublicParams" -> IBE_encrypt(x, SampleIdentity, SampleMessage, SampleDraw)
    [] kind = "IBEPrivateKey" -> IBE_decrypt(x, SampleCiphertext)
    [] kind = "IBECiphertext" -> IBE_decrypt(SampleKey, x)
    [] kind = "ABEMasterKey" -> ABE_key_gen(x, SampleAttributes)
    [] kind = "ABEPublicParams" -> ABE_encrypt(x, SampleIdentity, SampleMessage, SampleDraw)
    [] kind = "ABEPrivateKey" -> ABE_decrypt(x, SampleABECiphertext)
    [] OTHER -> ABE_decrypt(SampleABEKey, x)

WrapperContext(kind) ==
  CASE kind = "IBEMasterKey" -> "IBE extract failed"
    [] kind = "IBEPublicParams" -> "IBE encrypt failed"
    [] kind \in {"IBEPrivateKey", "IBECiphertext"} -> "IBE decrypt failed"
    [] kind = "ABEPublicParams" -> "ABE encrypt failed"
    [] OTHER -> "ABE decrypt failed"

\* try { return op(...) } catch (error) { throw new Error(`...: ${error}`) };
\* extractABEKey has no catch and hands the error of the engine on as it is
Wrapped(kind, completion) ==
  IF completion.kind = "throw" /\ kind # "ABEMasterKey"
  THEN Throw(WrapError(WrapperContext(kind), completion.error))
  ELSE completion

\* bytes arrive from the caller
Receive ==
  /\ codec = NULL
  /\ \E x \in ConstructedObjects :
       \E wire \in Edits(encode(x)) :
         codec' = [object |-> NULL, kind |-> KindOf(x), encoded |-> wire,
                   decoded |-> NULL, reencoded |-> NULL, outcome |-> NULL]
  /\ UNCHANGED outsideCodec

\* the operation is called with them
Operate ==
  /\ codec # NULL /\ codec.object = NULL /\ codec.outcome = NULL
  /\ LET operand == decode(codec.kind, codec.encoded)
     IN codec' = [codec EXCEPT
          !.decoded = operand,
          !.outcome = Wrapped(codec.kind,
                              IF operand.kind = "throw" THEN operand
                              ELSE Operation(codec.kind, operand.value))]
  /\ UNCHANGED outsideCodec

\* the caller lets go of what it holds
Release ==
  /\ codec # NULL
  /\ codec.reencoded # NULL \/ codec.outcome # NULL
  /\ codec' = NULL
  /\ UNCHANGED outsideCodec

NextCodec ==
  \/ Construct
  \/ Encode
  \/ Decode
  \/ ReEncode
  \/ Receive
  \/ Operate
  \/ Release

SpecCodec == Init /\ [][NextCodec]_vars

(***************************************************************************)
(* Use of src/symmetric: a plaintext is encrypted, and what was returned   *)
(* is decrypted with a key, a nonce and a tag the caller presents: the tag *)
(* as returned, with one byte changed, cut short or extended.  One         *)
(* encryption and one decryption of its result are followed.               *)
(***************************************************************************)
SymmetricKeys == {Fill(AES_KEY_LENGTH \div 8, b) : b \in Byte} \cup {Fill(16, 0)}

IVs == {Fill(AES_IV_LENGTH, b) : b \in Byte} \cup {Fill(8, 0)}

Nonces == {Fill(CHACHA20_NONCE_LENGTH, b) : b \in Byte} \cup {Fill(12, 0)}

Optional(S) == {NULL} \cup {Bytes(b) : b \in S}

\* tamperedTag[i] ^= 1
FlipByte(tag, i) == [tag EXCEPT ![i] = Xor(@, 1)]

PresentedTags(authTag) ==
  {authTag}
    \cup {FlipByte(authTag, i) : i \in 1..Len(authTag)}
    \cup {SubSeq(authTag, 1, Len(authTag) - 1), Append(authTag, 0)}

outsideSymmetric ==
  <<ibeModule, abeModule, scheme, scenario, ret, calls, codec, console, sse, otherAreas>>

CallEncryptAES ==
  /\ aead = NULL
  /\ \E plaintext \in Messages, key \in SymmetricKeys, iv \in Optional(IVs),
        randomIV \in {Fill(AES_IV_LENGTH, b) : b \in Byte} :
       /\ iv # NULL => randomIV = Fill(AES_IV_LENGTH, 0)
       /\ aead' = [algorithm |-> "AES", plaintext |-> plaintext, key |-> key,
                   encrypted |-> encryptAES(plaintext, key, iv, randomIV),
                   presented |-> NULL, outcome |-> NULL]
  /\ UNCHANGED outsideSymmetric

CallDecryptAES ==
  /\ aead # NULL /\ aead.algorithm = "AES" /\ aead.encrypted.kind = "return"
  /\ aead.outcome = NULL
  /\ \E key \in SymmetricKeys, iv \in IVs,
        authTag \in PresentedTags(aead.encrypted.value.authTag) :
       aead' = [aead EXCEPT
         !.presented = [key |-> key, nonce |-> iv, authTag |-> authTag],
         !.outcome = decryptAES(aead.encrypted.value.ciphertext, key, iv, authTag)]
  /\ UNCHANGED outsideSymmetric

CallEncryptChaCha20 ==
  /\ aead = NULL
  /\ \E plaintext \in Messages, key \in SymmetricKeys, nonce \in Optional(Nonces),
        randomNonce \in {Fill(CHACHA20_NONCE_LENGTH, b) : b \in Byte} :
       /\ nonce # NULL => randomNonce = Fill(CHACHA20_NONCE_LENGTH, 0)
       /\ aead' = [algorithm |-> "ChaCha20", plaintext |-> plaintext, key |-> key,
                   encrypted |-> encryptChaCha20(plaintext, key, nonce, randomNonce),
                   presented |-> NULL, outcome |-> NULL]
  /\ UNCHANGED outsideSymmetric

CallDecryptChaCha20 ==
  /\ aead # NULL /\ aead.algorithm = "ChaCha20" /\ aead.encrypted.kind = "return"
  /\ aead.outcome = NULL
  /\ \E key \in SymmetricKeys, nonce \in Nonces,
        authTag \in PresentedTags(aead.encrypted.value.authTag) :
       aead' = [aead EXCEPT
         !.presented = [key |-> key, nonce |-> nonce, authTag |-> authTag],
         !.outcome = decryptChaCha20(aead.encrypted.value.ciphertext, key, nonce, authTag)]
  /\ UNCHANGED outsideSymmetric

NextSymmetric ==
  \/ CallEncryptAES
  \/ CallDecryptAES
  \/ CallEncryptChaCha20
  \/ CallDecryptChaCha20

SpecSymmetric == Init /\ [][NextSymmetric]_vars

(***************************************************************************)
(* Use of the searchable encryption: a master key is taken, documents are  *)
(* encrypted under it and stored in order, then the store is searched.     *)
(***************************************************************************)
SampleDocumentId == Fill(16, 0)

outsideSSE ==
  <<ibeModule, abeModule, scheme, scenario, ret, calls, codec, console, aead, otherAreas>>

\* generateSSEKey(), or a key the caller brings
TakeSSEKey ==
  /\ sse = NULL
  /\ \E key \in SymmetricKeys :
       sse' = [masterKey |-> key, documents |-> <<>>, keywords |-> <<>>,
               last |-> NULL, search |-> NULL]
  /\ UNCHANGED outsideSSE

\* documents.push(await encryptSSE(masterKey, id, plaintext, keywords))
CallEncryptSSE ==
  /\ sse # NULL /\ sse.search = NULL /\ Len(sse.documents) < MaxDocuments
  /\ IF sse.last = NULL THEN TRUE ELSE sse.last.kind = "return"
  /\ \E keywords \in KeywordLists :
       LET doc == encryptSSE(sse.masterKey, SampleDocumentId, SampleMessage, keywords,
                             Fill(AES_IV_LENGTH, 0))
       IN sse' = IF doc.kind = "throw" THEN [sse EXCEPT !.last = doc]
                 ELSE [sse EXCEPT !.last = Return(Len(sse.documents) + 1),
                                  !.documents = Append(@, doc.value),
                                  !.keywords = Append(@, keywords)]
  /\ UNCHANGED outsideSSE

\* searchSSE(await generateSearchToken(masterKey, keyword), documents)
CallSearchSSE ==
  /\ sse # NULL /\ sse.search = NULL
  /\ \E keyword \in Keywords :
       LET searchTag == generateSearchToken(sse.masterKey, keyword)
       IN sse' = [sse EXCEPT !.search =
            [keyword |-> keyword,
             result |-> IF searchTag.kind = "throw" THEN searchTag
                        ELSE searchSSE(searchTag.value, sse.documents)]]
  /\ UNCHANGED outsideSSE

NextSSE ==
  \/ TakeSSEKey
  \/ CallEncryptSSE
  \/ CallSearchSSE

SpecSSE == Init /\ [][NextSSE]_vars

(***************************************************************************)
(* Use of the signatures: a message is signed, then a verification is      *)
(* asked for with a message, a signature and a public key the caller       *)
(* presents: the signature as returned, with its first or last byte        *)
(* changed, cut short or extended; the key of either pair, or no key.      *)
(***************************************************************************)
outsideSigning ==
  <<ibeModule, abeModule, scheme, scenario, ret, calls, codec, console, aead, sse, hex,
    app, waiting>>

ChangeByte(b, i) == [b EXCEPT ![i] = IF b[i] = 0 THEN 9 ELSE 0]

PresentedSignatures(signature) ==
  {signature, ChangeByte(signature, 1), ChangeByte(signature, Len(signature)),
   SubSeq(signature, 1, Len(signature) - 1), Append(signature, 0)}

Signed(how, k, text, algorithm, completion) ==
  [how |-> how, key |-> k, text |-> text, algorithm |-> algorithm,
   signature |-> completion, verified |-> NULL]

Verified(text, signature, publicKey, usable, algorithm, completion) ==
  [text |-> text, signature |-> signature, publicKey |-> publicKey, usable |-> usable,
   algorithm |-> algorithm, completion |-> completion]

CallSignRSA ==
  /\ signing = NULL
  /\ \E k \in KeyPairIds, text \in SignedMessages, algorithm \in HashAlgorithms :
       signing' = Signed("RSA", k, text, algorithm, signRSA(text, k, algorithm))
  /\ UNCHANGED outsideSigning

CallVerifyRSA ==
  /\ signing # NULL
  /\ IF signing = NULL THEN FALSE
     ELSE /\ signing.how = "RSA" /\ signing.verified = NULL
          /\ signing.signature.kind = "return"
  /\ \E text \in SignedMessages, signature \in PresentedSignatures(signing.signature.value),
        pem \in {PublicKeyPem(k) : k \in KeyPairIds} \cup {InvalidKeyText},
        algorithm \in HashAlgorithms :
       signing' = [signing EXCEPT !.verified =
                     Verified(text, signature, pem, pem.type = "pem", algorithm,
                              verifyRSA(text, signature, pem, algorithm))]
  /\ UNCHANGED outsideSigning

CallSignEcdsa ==
  /\ signing = NULL
  /\ \E k \in KeyPairIds, text \in SignedMessages, curve \in Curves :
       signing' = Signed("ECDSA", k, text, curve, signEcdsa(text, k, curve))
  /\ UNCHANGED outsideSigning

CallVerifyEcdsa ==
  /\ signing # NULL
  /\ IF signing = NULL THEN FALSE
     ELSE signing.how = "ECDSA" /\ signing.verified = NULL
  /\ \E text \in SignedMessages, signature \in PresentedSignatures(signing.signature.value),
        publicKey \in {PublicKeyBytes(k) : k \in KeyPairIds} \cup {InvalidKeyBytes},
        rejection \in Rejections :
       signing' = [signing EXCEPT !.verified =
                     Verified(text, signature, publicKey, UsableKeyBytes(publicKey),
                              signing.algorithm,
                              verifyEcdsa(text, signature, publicKey, signing.algorithm,
                                          rejection))]
  /\ UNCHANGED outsideSigning

\* the caller lets go of the signature
ReleaseSignature ==
  /\ signing # NULL
  /\ IF signing = NULL THEN FALSE
     ELSE IF signing.verified # NULL THEN TRUE ELSE signing.signature.kind = "throw"
  /\ signing' = NULL
  /\ UNCHANGED outsideSigning

NextSigning ==
  \/ CallSignRSA
  \/ CallVerifyRSA
  \/ CallSignEcdsa
  \/ CallVerifyEcdsa
  \/ ReleaseSignature

SpecSigning == Init /\ [][NextSigning]_vars

(***************************************************************************)
(* Use of hexToBytes: a text is converted, and the caller goes on.         *)
(***************************************************************************)
outsideHex ==
  <<ibeModule, abeModule, scheme, scenario, ret, calls, codec, console, aead, sse,
    signing, app, waiting>>

CallHexToBytes ==
  /\ hex = NULL
  /\ \E text \in HexTexts : hex' = [text |-> text, completion |-> hexToBytes(text)]
  /\ UNCHANGED outsideHex

ReleaseHex ==
  /\ hex # NULL
  /\ hex' = NULL
  /\ UNCHANGED outsideHex

NextHex ==
  \/ CallHexToBytes
  \/ ReleaseHex

SpecHex == Init /\ [][NextHex]_vars

(***************************************************************************)
(* The web application in use.  The page creates the application object,   *)
(* the user types into the fields bound to the state and clicks; a click   *)
(* runs a handler to its await, and a handler that waits is resumed when   *)
(* the wrapper it called completes.  At most MaxWaiting handlers wait at a *)
(* time.                                                                   *)
(***************************************************************************)
MaxWaiting == 1

outsideApp == <<scheme, scenario, ret, calls, codec, aead, sse, signing, hex>>

\* x-data="cryptoApp()" on the page opened with ?crypto=selectedCrypto
CreateApp ==
  /\ app = NULL
  /\ \E selectedCrypto \in SelectableCryptos : app' = cryptoApp(selectedCrypto)
  /\ UNCHANGED <<ibeModule, abeModule, waiting, console, outsideApp>>

\* the user works in the panel of the algorithm the page was opened on
Shown(panel) == IF app = NULL THEN FALSE ELSE app.selectedCrypto = panel

IBEHandlers ==
  {"initializeIBE", "generateIBEKeyPair:initializeIBE", "generateIBEKeyPair",
   "extractIBEKey", "encryptIBE", "decryptIBE"}

InitABEHandlers ==
  {"initializeABE", "generateABEKeyPair:initializeABE",
   "initializeKPABE", "generateKPABEKeyPair:initializeKPABE"}

ABEHandlers ==
  InitABEHandlers \cup
  {"generateABEKeyPair", "extractABEKey", "encryptABE", "decryptABE",
   "generateKPABEKeyPair", "extractKPABEKey", "encryptKPABE", "decryptKPABE"}

\* the handler waits for the files of its module to be loaded
SSEHandlers == {"encryptSSE", "searchSSE", "decryptSSE"}

DilithiumHandlers == {"initDilithium"}

\* the handler waits for something done outside the page's thread: the
\* files of its module being loaded, a digest or an HMAC of Web Crypto
WaitsOutside(wait) ==
  IF wait.handler \in IBEHandlers THEN ~AlreadyInitialized(ibeModule)
  ELSE IF wait.handler \in ABEHandlers THEN ~AlreadyInitialized(abeModule)
  ELSE wait.handler \in SSEHandlers \cup DilithiumHandlers

\* the page takes its next event: no handler waits, or each one that does
\* waits for something outside the thread.  A handler that awaits a call
\* computed in the page's own thread goes on before the next event is taken.
TakesEvent == \A i \in 1..Len(waiting) : WaitsOutside(waiting[i])

\* the user has typed into a field bound with x-model
Typed(this) ==
  /\ TakesEvent
  /\ app' = this
  /\ app' # app
  /\ UNCHANGED <<ibeModule, abeModule, waiting, console, outsideApp>>

\* a click on a handler: it runs to its await, or to its end
Click(left) ==
  /\ TakesEvent
  /\ app' = left.this
  /\ IF left.wait = NULL THEN waiting' = waiting
     ELSE Len(waiting) < MaxWaiting /\ waiting' = Append(waiting, left.wait)
  /\ UNCHANGED <<ibeModule, abeModule, console, outsideApp>>

\* the call of the handler waiting at place i has completed, and the
\* handler goes on with what it left
GoOn(i, left) ==
  /\ Len(console) + Len(left.written) <= MaxLog
  /\ app' = left.this
  /\ waiting' = IF left.wait = NULL
                THEN SubSeq(waiting, 1, i - 1) \o SubSeq(waiting, i + 1, Len(waiting))
                ELSE [waiting EXCEPT ![i] = [left.wait EXCEPT !.beforeReset =
                                                             waiting[i].beforeReset]]
  /\ console' = console \o left.written
  /\ UNCHANGED outsideApp

TypedIdentities == {<<"A">>}

TypedPlaintexts == {<<"a">>}

\* x-model="ibeState.identity", x-model="ibeState.plaintext"
TypeIBE ==
  /\ Shown("ibe")
  /\ \/ \E identity \in TypedIdentities : Typed([app EXCEPT !.ibeState.identity = identity])
     \/ \E plaintext \in TypedPlaintexts :
          Typed([app EXCEPT !.ibeState.plaintext = plaintext])

ClickInitializeIBE == Shown("ibe") /\ Click(HandleInitializeIBE(app))

ClickGenerateIBEKeyPair == Shown("ibe") /\ Click(HandleGenerateIBEKeyPair(app))

ClickExtractIBEKey == Shown("ibe") /\ Click(HandleExtractIBEKey(app))

ClickEncryptIBE == Shown("ibe") /\ Click(HandleEncryptIBE(app))

ClickDecryptIBE == Shown("ibe") /\ Click(HandleDecryptIBE(app))

\* the completion of the call into ibe.ts a waiting handler has made
CompletionIBE(wait, module, load, rand) ==
  CASE wait.handler \in {"initializeIBE", "generateIBEKeyPair:initializeIBE"} ->
         LET st == initIBE(module, load)
         IN IF st.error = NULL THEN Return(NULL) ELSE Throw(st.error)
    [] wait.handler = "generateIBEKeyPair" -> generateIBEKeyPair(module, load, rand)
    [] wait.handler = "extractIBEKey" ->
         extractIBEKey(module, load, wait.operands.masterKey, wait.operands.identity)
    [] wait.handler = "encryptIBE" ->
         encryptIBE(module, load, wait.operands.publicParams, wait.operands.identity,
                    wait.operands.plaintextBytes, rand)
    [] wait.handler = "decryptIBE" ->
         decryptIBE(module, load, wait.operands.privateKey, wait.operands.ciphertext)

ResumeIBE(this, wait, c) ==
  CASE wait.handler = "initializeIBE" -> ResumeInitializeIBE(this, wait, c)
    [] wait.handler = "generateIBEKeyPair:initializeIBE" ->
         ResumeGenerateIBEKeyPairInitialized(this, wait, c)
    [] wait.handler = "generateIBEKeyPair" -> ResumeGenerateIBEKeyPair(this, wait, c)
    [] wait.handler = "extractIBEKey" -> ResumeExtractIBEKey(this, wait, c)
    [] wait.handler = "encryptIBE" -> ResumeEncryptIBE(this, wait, c)
    [] wait.handler = "decryptIBE" -> ResumeDecryptIBE(this, wait, c)

\* a call into ibe.ts completes and its handler is resumed
SettleIBE(i) ==
  /\ i \in 1..Len(waiting)
  /\ IF i \in 1..Len(waiting) THEN waiting[i].handler \in IBEHandlers ELSE FALSE
  /\ \E load \in LoadChoices(ibeModule), rand \in RandomDraws :
       /\ waiting[i].handler \notin {"generateIBEKeyPair", "encryptIBE"} => rand = SampleDraw
       /\ ibeModule' = ModuleAfter(initIBE(ibeModule, load))
       /\ LET c == CompletionIBE(waiting[i], ibeModule, load, rand)
          IN GoOn(i, ResumeIBE(app, waiting[i], c))
  /\ UNCHANGED abeModule

\* resetState(): the state records are replaced; a handler that waits keeps
\* the record it took before
ClickResetState ==
  /\ app # NULL
  /\ TakesEvent
  /\ app' = resetState(app)
  /\ waiting' = [i \in 1..Len(waiting) |->
                  [waiting[i] EXCEPT !.replaced = TRUE, !.beforeReset = TRUE]]
  /\ UNCHANGED <<ibeModule, abeModule, console, outsideApp>>

NextAppIBE ==
  \/ CreateApp
  \/ TypeIBE
  \/ ClickInitializeIBE
  \/ ClickGenerateIBEKeyPair
  \/ ClickExtractIBEKey
  \/ ClickEncryptIBE
  \/ ClickDecryptIBE
  \/ \E i \in 1..MaxWaiting : SettleIBE(i)
  \/ ClickResetState

SpecAppIBE == Init /\ [][NextAppIBE]_vars

(***************************************************************************)
(* src/web/main.ts: the attribute and keyword lists, and the handlers of   *)
(* the ABE and KP-ABE panels.                                              *)
(***************************************************************************)
\* a boolean | null field holding a boolean
Boolean(b) == [type |-> "boolean", value |-> b]

\* str.trim()
RECURSIVE trimStart(_)
trimStart(str) ==
  IF str = <<>> THEN <<>>
  ELSE IF Head(str) = " " THEN trimStart(Tail(str)) ELSE str

RECURSIVE trimEnd(_)
trimEnd(str) ==
  IF str = <<>> THEN <<>>
  ELSE IF str[Len(str)] = " " THEN trimEnd(SubSeq(str, 1, Len(str) - 1)) ELSE str

trim(str) == trimEnd(trimStart(str))

\* str.split(","): the pieces between the commas, the empty ones too
RECURSIVE split(_)
split(str) ==
  IF \A i \in 1..Len(str) : str[i] # "," THEN <<str>>
  ELSE LET i == CHOOSE k \in 1..Len(str) :
                  str[k] = "," /\ \A j \in 1..(k - 1) : str[j] # ","
       IN <<SubSeq(str, 1, i - 1)>> \o split(SubSeq(str, i + 1, Len(str)))

includes(array, x) == \E i \in 1..Len(array) : array[i] = x

\* array.splice(index, 1) for an index of the page: a place of the array, or
\* one past its end
splice(array, index) ==
  IF index \in 1..Len(array)
  THEN SubSeq(array, 1, index - 1) \o SubSeq(array, index + 1, Len(array))
  ELSE array

\* for (const attr of attributes) if (!list.includes(attr)) list.push(attr)
RECURSIVE PushNew(_, _)
PushNew(list, attributes) ==
  IF attributes = <<>> THEN list
  ELSE PushNew(IF includes(list, Head(attributes)) THEN list
               ELSE Append(list, Head(attributes)),
               Tail(attributes))

\* input.split(",").map((attr) => attr.trim()).filter((attr) => attr.length > 0)
SplitAttributes(input) ==
  LET pieces == split(input)
      trimmed == [i \in 1..Len(pieces) |-> trim(pieces[i])]
  IN SelectSeq(trimmed, LAMBDA attr : Len(attr) > 0)

\* faulty variant: an attribute is pushed whether the list has it or not
addAttribute_NoCheck(this) ==
  LET input == trim(this.abeState.attributeInput)
  IN IF input = EmptyString THEN this
     ELSE [this EXCEPT !.abeState.attributes = @ \o SplitAttributes(input),
                       !.abeState.attributeInput = EmptyString]

addAttribute(this) ==
  LET input == trim(this.abeState.attributeInput)
  IN IF input = EmptyString THEN this
     ELSE [this EXCEPT !.abeState.attributes = PushNew(@, SplitAttributes(input)),
                       !.abeState.attributeInput = EmptyString]

removeAttribute(this, index) ==
  [this EXCEPT !.abeState.attributes = splice(@, index)]

addKPABEAttribute(this) ==
  LET input == trim(this.kpabeState.attributeInput)
  IN IF input = EmptyString THEN this
     ELSE [this EXCEPT !.kpabeState.attributes = PushNew(@, SplitAttributes(input)),
                       !.kpabeState.attributeInput = EmptyString]

removeKPABEAttribute(this, index) ==
  [this EXCEPT !.kpabeState.attributes = splice(@, index)]

addKeyword(this) ==
  IF trim(this.sseState.keywordInput) = EmptyString THEN this
  ELSE LET keyword == trim(this.sseState.keywordInput)
       IN [this EXCEPT !.sseState.keywords = IF includes(@, keyword) THEN @
                                             ELSE Append(@, keyword),
                       !.sseState.keywordInput = EmptyString]

removeKeyword(this, index) ==
  [this EXCEPT !.sseState.keywords = splice(@, index)]

HandleInitializeABE(this) ==
  IF this.abeState.initialized THEN Left(this, NULL)
  ELSE Left([this EXCEPT !.abeState.error = EmptyString], Waits("initializeABE", NULL))

ResumeInitializeABE(this, wait, c) ==
  IF c.kind = "return"
  THEN Left([this EXCEPT !.abeState.initialized = TRUE], NULL)
  ELSE Left([this EXCEPT !.abeState.error = ErrorText("initialization error", Caught(c)),
                         !.abeState.initialized = FALSE], NULL)

HandleGenerateABEKeyPair(this) ==
  IF ~this.abeState.initialized
  THEN Left([this EXCEPT !.abeState.error = EmptyString],
            Waits("generateABEKeyPair:initializeABE", NULL))
  ELSE Left(this, Waits("generateABEKeyPair", NULL))

ResumeGenerateABEKeyPairInitialized(this, wait, c) ==
  Left(ResumeInitializeABE(this, wait, c).this, Waits("generateABEKeyPair", NULL))

ResumeGenerateABEKeyPair(this, wait, c) ==
  IF c.kind = "return"
  THEN Left([this EXCEPT !.abeState.masterKey = c.value.masterKey,
                         !.abeState.publicParams = c.value.publicParams,
                         !.abeState.error = EmptyString], NULL)
  ELSE Left([this EXCEPT !.abeState.error = ErrorText("key generation error", Caught(c))],
            NULL)

HandleExtractABEKey(this) ==
  IF this.abeState.masterKey = NULL \/ Len(this.abeState.attributes) = 0
  THEN Left([this EXCEPT !.abeState.error = Notice("master key and attributes are needed")],
            NULL)
  ELSE Left(this, Waits("extractABEKey", [masterKey |-> this.abeState.masterKey,
                                          attributes |-> this.abeState.attributes]))

ResumeExtractABEKey(this, wait, c) ==
  IF c.kind = "return"
  THEN Left([this EXCEPT !.abeState.privateKey =
                            IF wait.replaced THEN @
                            ELSE MadeWith(c.value, wait.operands.masterKey),
                         !.abeState.error = EmptyString], NULL)
  ELSE Left([this EXCEPT !.abeState.error = ErrorText("key extraction error", Caught(c)),
                         !.abeState.privateKey = NULL], NULL)

HandleEncryptABE(this) ==
  IF this.abeState.publicParams = NULL \/ this.abeState.policy = EmptyString
     \/ this.abeState.plaintext = EmptyString
  THEN Left(this, NULL)
  ELSE LET plaintextBytes == stringToBytes(this.abeState.plaintext)
       IN Left([this EXCEPT !.abeState.plaintextBytes = Bytes(plaintextBytes)],
               Waits("encryptABE", [publicParams |-> this.abeState.publicParams,
                                    policy |-> this.abeState.policy,
                                    plaintextBytes |-> plaintextBytes]))

ResumeEncryptABE(this, wait, c) ==
  IF c.kind = "return"
  THEN Left([this EXCEPT !.abeState.ciphertext =
                            IF wait.replaced THEN @
                            ELSE MadeWith(c.value, wait.operands.publicParams),
                         !.abeState.error = EmptyString], NULL)
  ELSE Left([this EXCEPT !.abeState.error = ErrorText("encryption error", Caught(c)),
                         !.abeState.ciphertext = NULL], NULL)

HandleDecryptABE(this) ==
  IF this.abeState.privateKey = NULL \/ this.abeState.ciphertext = NULL
  THEN Left(this, NULL)
  ELSE Left(this, Waits("decryptABE", [privateKey |-> this.abeState.privateKey,
                                       ciphertext |-> this.abeState.ciphertext]))

\* errorMessage.includes("Attribute mismatch"): the text of the engine's
\* error of that kind
IsAttributeMismatch(e) == e.kind = "AttributeMismatch"

\* faulty variant: the plaintext of an earlier decryption stays on a mismatch
ResumeDecryptABE_KeepsPlaintext(this, wait, c) ==
  IF c.kind = "return"
  THEN Left([this EXCEPT !.abeState.decryptedBytes = c.value,
                         !.abeState.decrypted = bytesToString(c.value.bytes),
                         !.abeState.decryptionSucceeded = Boolean(TRUE),
                         !.abeState.error = EmptyString], NULL)
  ELSE IF IsAttributeMismatch(Caught(c))
  THEN Left([this EXCEPT !.abeState.decryptionSucceeded = Boolean(FALSE),
                         !.abeState.error = EmptyString], NULL)
  ELSE Left([this EXCEPT !.abeState.error = ErrorText("decryption error", Caught(c)),
                         !.abeState.decryptionSucceeded = NULL,
                         !.abeState.decrypted = EmptyString,
                         !.abeState.decryptedBytes = NULL], NULL)

ResumeDecryptABE(this, wait, c) ==
  IF c.kind = "return"
  THEN Left([this EXCEPT !.abeState.decryptedBytes = c.value,
                         !.abeState.decrypted = bytesToString(c.value.bytes),
                         !.abeState.decryptionSucceeded = Boolean(TRUE),
                         !.abeState.error = EmptyString], NULL)
  ELSE IF IsAttributeMismatch(Caught(c))
  THEN Left([this EXCEPT !.abeState.decryptionSucceeded = Boolean(FALSE),
                         !.abeState.error = EmptyString,
                         !.abeState.decrypted = EmptyString,
                         !.abeState.decryptedBytes = NULL], NULL)
  ELSE Left([this EXCEPT !.abeState.error = ErrorText("decryption error", Caught(c)),
                         !.abeState.decryptionSucceeded = NULL,
                         !.abeState.decrypted = EmptyString,
                         !.abeState.decryptedBytes = NULL], NULL)

HandleInitializeKPABE(this) ==
  IF this.kpabeState.initialized THEN Left(this, NULL)
  ELSE Left([this EXCEPT !.kpabeState.error = EmptyString], Waits("initializeKPABE", NULL))

ResumeInitializeKPABE(this, wait, c) ==
  IF c.kind = "return"
  THEN Left([this EXCEPT !.kpabeState.initialized = TRUE], NULL)
  ELSE Left([this EXCEPT !.kpabeState.error = ErrorText("initialization error", Caught(c)),
                         !.kpabeState.initialized = FALSE], NULL)

HandleGenerateKPABEKeyPair(this) ==
  IF ~this.kpabeState.initialized
  THEN Left([this EXCEPT !.kpabeState.error = EmptyString],
            Waits("generateKPABEKeyPair:initializeKPABE", NULL))
  ELSE Left([this EXCEPT !.kpabeState.error = EmptyString],
            Waits("generateKPABEKeyPair", NULL))

\* initializeKPABE() has returned into generateKPABEKeyPair: the try block
\* up to its await
ResumeGenerateKPABEKeyPairInitialized(this, wait, c) ==
  Left([ResumeInitializeKPABE(this, wait, c).this EXCEPT !.kpabeState.error = EmptyString],
       Waits("generateKPABEKeyPair", NULL))

ResumeGenerateKPABEKeyPair(this, wait, c) ==
  IF c.kind = "return"
  THEN Left([this EXCEPT !.kpabeState.masterKey = c.value.masterKey,
                         !.kpabeState.publicParams = c.value.publicParams,
                         !.kpabeState.error = EmptyString], NULL)
  ELSE LeftLogging([this EXCEPT !.kpabeState.error =
                                   ErrorText("key generation error", Caught(c)),
                                !.kpabeState.masterKey = NULL,
                                !.kpabeState.publicParams = NULL],
                   NULL, <<ConsoleError("KP-ABE key pair generation error:", Caught(c))>>)

HandleExtractKPABEKey(this) ==
  IF this.kpabeState.masterKey = NULL \/ this.kpabeState.policy = EmptyString
  THEN Left([this EXCEPT !.kpabeState.error = Notice("master key and policy are needed")],
            NULL)
  ELSE Left(this, Waits("extractKPABEKey", [masterKey |-> this.kpabeState.masterKey,
                                            policy |-> this.kpabeState.policy]))

ResumeExtractKPABEKey(this, wait, c) ==
  IF c.kind = "return"
  THEN Left([this EXCEPT !.kpabeState.privateKey =
                            IF wait.replaced THEN @
                            ELSE MadeWith(c.value, wait.operands.masterKey),
                         !.kpabeState.error = EmptyString], NULL)
  ELSE Left([this EXCEPT !.kpabeState.error = ErrorText("key extraction error", Caught(c)),
                         !.kpabeState.privateKey = NULL], NULL)

HandleEncryptKPABE(this) ==
  IF this.kpabeState.publicParams = NULL \/ Len(this.kpabeState.attributes) = 0
     \/ this.kpabeState.plaintext = EmptyString
  THEN Left(this, NULL)
  ELSE LET plaintextBytes == stringToBytes(this.kpabeState.plaintext)
       IN Left([this EXCEPT !.kpabeState.plaintextBytes = Bytes(plaintextBytes)],
               Waits("encryptKPABE", [publicParams |-> this.kpabeState.publicParams,
                                      attributes |-> this.kpabeState.attributes,
                                      plaintextBytes |-> plaintextBytes]))

ResumeEncryptKPABE(this, wait, c) ==
  IF c.kind = "return"
  THEN Left([this EXCEPT !.kpabeState.ciphertext =
                            IF wait.replaced THEN @
                            ELSE MadeWith(c.value, wait.operands.publicParams),
                         !.kpabeState.error = EmptyString], NULL)
  ELSE Left([this EXCEPT !.kpabeState.error = ErrorText("encryption error", Caught(c)),
                         !.kpabeState.ciphertext = NULL], NULL)

HandleDecryptKPABE(this) ==
  IF this.kpabeState.privateKey = NULL \/ this.kpabeState.ciphertext = NULL
  THEN Left(this, NULL)
  ELSE Left(this, Waits("decryptKPABE", [privateKey |-> this.kpabeState.privateKey,
                                         ciphertext |-> this.kpabeState.ciphertext]))

ResumeDecryptKPABE(this, wait, c) ==
  IF c.kind = "return"
  THEN Left([this EXCEPT !.kpabeState.decryptedBytes = c.value,
                         !.kpabeState.decrypted = bytesToString(c.value.bytes),
                         !.kpabeState.decryptionSucceeded = Boolean(TRUE),
                         !.kpabeState.error = EmptyString], NULL)
  ELSE IF IsAttributeMismatch(Caught(c))
  THEN Left([this EXCEPT !.kpabeState.decryptionSucceeded = Boolean(FALSE),
                         !.kpabeState.error = EmptyString,
                         !.kpabeState.decrypted = EmptyString,
                         !.kpabeState.decryptedBytes = NULL], NULL)
  ELSE Left([this EXCEPT !.kpabeState.error = ErrorText("decryption error", Caught(c)),
                         !.kpabeState.decryptionSucceeded = NULL,
                         !.kpabeState.decrypted = EmptyString,
                         !.kpabeState.decryptedBytes = NULL], NULL)

(***************************************************************************)
(* The ABE and KP-ABE panels in use.                                       *)
(***************************************************************************)
TypedAttributeInputs == {<<"A">>}

TypedPolicies == {<<"A">>, <<"A", ",", "B">>}

\* x-model="abeState.attributeInput", "abeState.policy", "abeState.plaintext"
TypeABE ==
  /\ Shown("abe")
  /\ \/ \E input \in TypedAttributeInputs :
          Typed([app EXCEPT !.abeState.attributeInput = input])
     \/ \E policy \in TypedPolicies : Typed([app EXCEPT !.abeState.policy = policy])
     \/ \E plaintext \in TypedPlaintexts :
          Typed([app EXCEPT !.abeState.plaintext = plaintext])

\* x-model="kpabeState.attributeInput", "kpabeState.policy", "kpabeState.plaintext"
TypeKPABE ==
  /\ Shown("kpabe")
  /\ \/ \E input \in TypedAttributeInputs :
          Typed([app EXCEPT !.kpabeState.attributeInput = input])
     \/ \E policy \in TypedPolicies : Typed([app EXCEPT !.kpabeState.policy = policy])
     \/ \E plaintext \in TypedPlaintexts :
          Typed([app EXCEPT !.kpabeState.plaintext = plaintext])

ClickAddAttribute == Shown("abe") /\ Typed(addAttribute(app))

ClickRemoveAttribute ==
  /\ Shown("abe")
  /\ \E index \in 1..Len(app.abeState.attributes) : Typed(removeAttribute(app, index))

ClickAddKPABEAttribute == Shown("kpabe") /\ Typed(addKPABEAttribute(app))

ClickRemoveKPABEAttribute ==
  /\ Shown("kpabe")
  /\ \E index \in 1..Len(app.kpabeState.attributes) :
       Typed(removeKPABEAttribute(app, index))

ClickInitializeABE == Shown("abe") /\ Click(HandleInitializeABE(app))

ClickGenerateABEKeyPair == Shown("abe") /\ Click(HandleGenerateABEKeyPair(app))

ClickExtractABEKey == Shown("abe") /\ Click(HandleExtractABEKey(app))

ClickEncryptABE == Shown("abe") /\ Click(HandleEncryptABE(app))

ClickDecryptABE == Shown("abe") /\ Click(HandleDecryptABE(app))

ClickInitializeKPABE == Shown("kpabe") /\ Click(HandleInitializeKPABE(app))

ClickGenerateKPABEKeyPair == Shown("kpabe") /\ Click(HandleGenerateKPABEKeyPair(app))

ClickExtractKPABEKey == Shown("kpabe") /\ Click(HandleExtractKPABEKey(app))

ClickEncryptKPABE == Shown("kpabe") /\ Click(HandleEncryptKPABE(app))

ClickDecryptKPABE == Shown("kpabe") /\ Click(HandleDecryptKPABE(app))

\* the completion of the call into abe.ts a waiting handler has made
CompletionABE(wait, module, load, rand) ==
  CASE wait.handler \in InitABEHandlers ->
         LET st == initABE(module, load)
         IN IF st.error = NULL THEN Return(NULL) ELSE Throw(st.error)
    [] wait.handler = "generateABEKeyPair" -> generateABEKeyPair(module, load, rand)
    [] wait.handler = "extractABEKey" ->
         extractABEKey(module, load, wait.operands.masterKey, wait.operands.attributes)
    [] wait.handler = "encryptABE" ->
         encryptABE(module, load, wait.operands.publicParams, wait.operands.policy,
                    wait.operands.plaintextBytes, rand)
    [] wait.handler = "decryptABE" ->
         decryptABE(module, load, wait.operands.privateKey, wait.operands.ciphertext)
    [] wait.handler = "generateKPABEKeyPair" -> generateKPABEKeyPair(module, load, rand)
    [] wait.handler = "extractKPABEKey" ->
         extractKPABEKey(module, load, wait.operands.masterKey, wait.operands.policy)
    [] wait.handler = "encryptKPABE" ->
         encryptKPABE(module, load, wait.operands.publicParams, wait.operands.attributes,
                      wait.operands.plaintextBytes, rand)
    [] wait.handler = "decryptKPABE" ->
         decryptKPABE(module, load, wait.operands.privateKey, wait.operands.ciphertext)

ResumeABE(this, wait, c) ==
  CASE wait.handler = "initializeABE" -> ResumeInitializeABE(this, wait, c)
    [] wait.handler = "generateABEKeyPair:initializeABE" ->
         ResumeGenerateABEKeyPairInitialized(this, wait, c)
    [] wait.handler = "generateABEKeyPair" -> ResumeGenerateABEKeyPair(this, wait, c)
    [] wait.handler = "extractABEKey" -> ResumeExtractABEKey(this, wait, c)
    [] wait.handler = "encryptABE" -> ResumeEncryptABE(this, wait, c)
    [] wait.handler = "decryptABE" -> ResumeDecryptABE(this, wait, c)
    [] wait.handler = "initializeKPABE" -> ResumeInitializeKPABE(this, wait, c)
    [] wait.handler = "generateKPABEKeyPair:initializeKPABE" ->
         ResumeGenerateKPABEKeyPairInitialized(this, wait, c)
    [] wait.handler = "generateKPABEKeyPair" -> ResumeGenerateKPABEKeyPair(this, wait, c)
    [] wait.handler = "extractKPABEKey" -> ResumeExtractKPABEKey(this, wait, c)
    [] wait.handler = "encryptKPABE" -> ResumeEncryptKPABE(this, wait, c)
    [] wait.handler = "decryptKPABE" -> ResumeDecryptKPABE(this, wait, c)

DrawingABEHandlers ==
  {"generateABEKeyPair", "encryptABE", "generateKPABEKeyPair", "encryptKPABE"}

\* a call into abe.ts completes and its handler is resumed
SettleABE(i) ==
  /\ i \in 1..Len(waiting)
  /\ IF i \in 1..Len(waiting) THEN waiting[i].handler \in ABEHandlers ELSE FALSE
  /\ \E load \in LoadChoices(abeModule), rand \in RandomDraws :
       /\ waiting[i].handler \notin DrawingABEHandlers => rand = SampleDraw
       /\ abeModule' = ModuleAfter(initABE(abeModule, load))
       /\ LET c == CompletionABE(waiting[i], abeModule, load, rand)
          IN GoOn(i, ResumeABE(app, waiting[i], c))
  /\ UNCHANGED ibeModule

NextAppABE ==
  \/ CreateApp
  \/ TypeABE
  \/ ClickAddAttribute
  \/ ClickRemoveAttribute
  \/ ClickInitializeABE
  \/ ClickGenerateABEKeyPair
  \/ ClickExtractABEKey
  \/ ClickEncryptABE
  \/ ClickDecryptABE
  \/ TypeKPABE
  \/ ClickAddKPABEAttribute
  \/ ClickRemoveKPABEAttribute
  \/ ClickInitializeKPABE
  \/ ClickGenerateKPABEKeyPair
  \/ ClickExtractKPABEKey
  \/ ClickEncryptKPABE
  \/ ClickDecryptKPABE
  \/ \E i \in 1..MaxWaiting : SettleABE(i)
  \/ ClickResetState

SpecAppABE == Init /\ [][NextAppABE]_vars

(***************************************************************************)
(* src/web/main.ts: the handlers of the AES panel and of the searchable    *)
(* encryption panel.  An entry of sseState.documents carries, as a note of *)
(* the model, the master key and the keywords it was stored with.          *)
(***************************************************************************)
HandleGenerateAESKey(this, key) ==
  Left([this EXCEPT !.aesState.key = Bytes(key), !.aesState.error = EmptyString], NULL)

HandleEncryptAES(this, randomIV) ==
  IF this.aesState.key = NULL \/ this.aesState.plaintext = EmptyString
  THEN Left(this, NULL)
  ELSE LET plaintextBytes == stringToBytes(this.aesState.plaintext)
           result == encryptAES(plaintextBytes, this.aesState.key.bytes, NULL, randomIV)
       IN IF result.kind = "return"
          THEN Left([this EXCEPT !.aesState.plaintextBytes = Bytes(plaintextBytes),
                                 !.aesState.ciphertext = Bytes(result.value.ciphertext),
                                 !.aesState.iv = Bytes(result.value.iv),
                                 !.aesState.authTag = Bytes(result.value.authTag),
                                 !.aesState.error = EmptyString], NULL)
          ELSE Left([this EXCEPT !.aesState.plaintextBytes = Bytes(plaintextBytes),
                                 !.aesState.error =
                                    ErrorText("encryption error", Caught(result))], NULL)

HandleDecryptAES(this) ==
  IF this.aesState.ciphertext = NULL \/ this.aesState.key = NULL
     \/ this.aesState.iv = NULL \/ this.aesState.authTag = NULL
  THEN Left(this, NULL)
  ELSE LET c == decryptAES(this.aesState.ciphertext.bytes, this.aesState.key.bytes,
                           this.aesState.iv.bytes, this.aesState.authTag.bytes)
       IN IF c.kind = "return"
          THEN Left([this EXCEPT !.aesState.decryptedBytes = Bytes(c.value),
                                 !.aesState.decrypted = bytesToString(c.value),
                                 !.aesState.error = EmptyString], NULL)
          ELSE Left([this EXCEPT !.aesState.error = ErrorText("decryption error", Caught(c)),
                                 !.aesState.decrypted = EmptyString,
                                 !.aesState.decryptedBytes = NULL], NULL)

HandleGenerateSSEKey(this, key) ==
  Left([this EXCEPT !.sseState.masterKey = Bytes(key), !.sseState.error = EmptyString], NULL)

\* documentId is what generateDocumentId() gives
HandleEncryptSSE(this, documentId) ==
  IF this.sseState.masterKey = NULL
  THEN Left([this EXCEPT !.sseState.error = Notice("generate a master key first")], NULL)
  ELSE IF this.sseState.plaintext = EmptyString
  THEN Left([this EXCEPT !.sseState.error = Notice("enter a plaintext")], NULL)
  ELSE IF Len(this.sseState.keywords) = 0
  THEN Left([this EXCEPT !.sseState.error = Notice("add at least one keyword")], NULL)
  ELSE LET plaintextBytes == stringToBytes(this.sseState.plaintext)
       IN Left([this EXCEPT !.sseState.error = EmptyString,
                            !.sseState.plaintextBytes = Bytes(plaintextBytes),
                            !.sseState.documentId = Bytes(documentId)],
               Waits("encryptSSE", [masterKey |-> this.sseState.masterKey.bytes,
                                    documentId |-> documentId,
                                    plaintextBytes |-> plaintextBytes,
                                    keywords |-> this.sseState.keywords]))

\* the keyword array handed to encryptSSE is read when the tags are made:
\* it is the array of the record the handler was started on
KeywordsTagged(this, wait) ==
  IF wait.replaced THEN wait.operands.keywords ELSE this.sseState.keywords

ResumeEncryptSSE(this, wait, c) ==
  IF c.kind = "return"
  THEN LET entry == MadeWith([id |-> Bytes(wait.operands.documentId), document |-> c.value],
                             [masterKey |-> wait.operands.masterKey,
                              keywords |-> KeywordsTagged(this, wait)])
       IN Left([this EXCEPT !.sseState.encryptedDocument = c.value,
                            !.sseState.documents = Append(@, entry),
                            !.sseState.plaintext = EmptyString,
                            !.sseState.plaintextBytes = NULL,
                            !.sseState.keywords = <<>>,
                            !.sseState.keywordInput = EmptyString], NULL)
  ELSE Left([this EXCEPT !.sseState.error = ErrorText("encryption error", Caught(c))], NULL)

HandleSearchSSE(this) ==
  IF this.sseState.masterKey = NULL
  THEN Left([this EXCEPT !.sseState.error = Notice("generate a master key first")], NULL)
  ELSE IF trim(this.sseState.searchKeyword) = EmptyString
  THEN Left([this EXCEPT !.sseState.error = Notice("enter a search keyword")], NULL)
  ELSE IF Len(this.sseState.documents) = 0
  THEN Left([this EXCEPT !.sseState.error = Notice("there is no document to search")], NULL)
  ELSE Left([this EXCEPT !.sseState.error = EmptyString],
            Waits("searchSSE", [masterKey |-> this.sseState.masterKey.bytes,
                                keyword |-> trim(this.sseState.searchKeyword)]))

\* this.sseState.documents.filter((item) => results.documents.includes(item.document))
FilterFound(documents, found) ==
  SelectSeq(documents, LAMBDA item : includes(found, item.document))

\* searchSSE from the completion of generateSearchToken on
ResumeSearchSSE(this, wait, c) ==
  IF c.kind = "throw"
  THEN Left([this EXCEPT !.sseState.error = ErrorText("search error", Caught(c))], NULL)
  ELSE LET documentList == [i \in 1..Len(this.sseState.documents) |->
                              this.sseState.documents[i].document]
           results == searchSSE(c.value, documentList)
       IN IF results.kind = "throw"
          THEN Left([this EXCEPT !.sseState.searchTag = Bytes(c.value),
                                 !.sseState.error =
                                    ErrorText("search error", Caught(results))], NULL)
          ELSE LET searchResults == FilterFound(this.sseState.documents,
                                                results.value.documents)
               IN Left([this EXCEPT !.sseState.searchTag = Bytes(c.value),
                                    !.sseState.searchResults = searchResults,
                                    !.sseState.selectedDocumentId =
                                       IF Len(searchResults) = 1 THEN searchResults[1].id
                                       ELSE NULL], NULL)

\* this.sseState.documents.find(...): the first entry with the selected id
FindDocument(documents, id) ==
  LET found == SelectSeq(documents, LAMBDA item : item.id = id)
  IN IF found = <<>> THEN NULL ELSE Head(found)

HandleDecryptSSE(this) ==
  IF this.sseState.masterKey = NULL
  THEN Left([this EXCEPT !.sseState.error = Notice("generate a master key first")], NULL)
  ELSE IF this.sseState.selectedDocumentId = NULL
  THEN Left([this EXCEPT !.sseState.error = Notice("select a document to decrypt")], NULL)
  ELSE LET documentItem == FindDocument(this.sseState.documents,
                                        this.sseState.selectedDocumentId)
       IN IF documentItem = NULL
          THEN Left([this EXCEPT !.sseState.error = Notice("the document is not found")],
                    NULL)
          ELSE Left([this EXCEPT !.sseState.error = EmptyString],
                    Waits("decryptSSE", [masterKey |-> this.sseState.masterKey.bytes,
                                         documentId |-> documentItem.id.bytes,
                                         document |-> documentItem.document]))

ResumeDecryptSSE(this, wait, c) ==
  IF c.kind = "return"
  THEN Left([this EXCEPT !.sseState.decryptedBytes = Bytes(c.value),
                         !.sseState.decrypted = bytesToString(c.value)], NULL)
  ELSE Left([this EXCEPT !.sseState.error = ErrorText("decryption error", Caught(c))], NULL)

selectDocument(this, id) ==
  [this EXCEPT !.sseState.selectedDocumentId = id, !.sseState.error = EmptyString]

(***************************************************************************)
(* The AES panel and the searchable encryption panel in use.               *)
(***************************************************************************)
\* what randomBytes gives for a key, a document id and an IV
DrawnKeys == {Fill(AES_KEY_LENGTH \div 8, b) : b \in Byte}

DrawnDocumentIds == {Fill(16, b) : b \in Byte}

\* the user types while no handler waits
Idle == waiting = <<>>

DrawnIVs == {Fill(AES_IV_LENGTH, 0)}

TypedKeywordInputs == {<<"A">>, <<"B">>}

\* the user gives a document this many keywords
MaxTypedKeywords == 1

TypedSearchKeywords == {<<"A", " ">>}

\* x-model="aesState.plaintext"
TypeAES ==
  /\ Shown("aes")
  /\ \E plaintext \in TypedPlaintexts : Typed([app EXCEPT !.aesState.plaintext = plaintext])

ClickGenerateAESKey ==
  /\ Shown("aes")
  /\ \E key \in DrawnKeys : Click(HandleGenerateAESKey(app, key))

ClickEncryptAES ==
  /\ Shown("aes")
  /\ \E randomIV \in DrawnIVs : Click(HandleEncryptAES(app, randomIV))

ClickDecryptAES == Shown("aes") /\ Click(HandleDecryptAES(app))

\* x-model="sseState.plaintext", "sseState.keywordInput", "sseState.searchKeyword"
TypeSSE ==
  /\ Shown("sse")
  /\ Idle
  /\ \/ \E plaintext \in TypedPlaintexts :
          Typed([app EXCEPT !.sseState.plaintext = plaintext])
     \/ \E input \in TypedKeywordInputs :
          /\ Len(app.sseState.keywords) < MaxTypedKeywords
          /\ Typed([app EXCEPT !.sseState.keywordInput = input])
     \/ \E keyword \in TypedSearchKeywords :
          Typed([app EXCEPT !.sseState.searchKeyword = keyword])

ClickGenerateSSEKey ==
  /\ Shown("sse")
  /\ \E key \in DrawnKeys : Click(HandleGenerateSSEKey(app, key))

ClickAddKeyword == Shown("sse") /\ Typed(addKeyword(app))

\* no document of the list and no document being encrypted has the id
IdIsNew(documentId) ==
  /\ \A i \in 1..Len(app.sseState.documents) :
       app.sseState.documents[i].id # Bytes(documentId)
  /\ \A i \in 1..Len(waiting) :
       waiting[i].handler = "encryptSSE" => waiting[i].operands.documentId # documentId

\* the id drawn for a document is none of the ids drawn before; of the
\* ids of the model the first such is taken
ClickEncryptSSE ==
  /\ Shown("sse")
  /\ Len(app.sseState.documents) < MaxDocuments
  /\ \E documentId \in DrawnDocumentIds :
       /\ IdIsNew(documentId)
       /\ \A other \in DrawnDocumentIds : IdIsNew(other) => documentId[1] <= other[1]
       /\ Click(HandleEncryptSSE(app, documentId))

ClickSearchSSE == Shown("sse") /\ Click(HandleSearchSSE(app))

\* @click="selectDocument(item.id)" on an entry the page lists
ClickSelectDocument ==
  /\ Shown("sse")
  /\ \E i \in 1..Len(app.sseState.documents) :
       Typed(selectDocument(app, app.sseState.documents[i].id))

ClickDecryptSSE == Shown("sse") /\ Click(HandleDecryptSSE(app))

\* the completion of the call into the library a waiting handler has made
CompletionSSE(this, wait, randomIV) ==
  CASE wait.handler = "encryptSSE" ->
         encryptSSE(wait.operands.masterKey, wait.operands.documentId,
                    wait.operands.plaintextBytes, KeywordsTagged(this, wait), randomIV)
    [] wait.handler = "searchSSE" ->
         generateSearchToken(wait.operands.masterKey, wait.operands.keyword)
    [] wait.handler = "decryptSSE" ->
         decryptSSE(wait.operands.masterKey, wait.operands.documentId,
                    wait.operands.document)

ResumeSSE(this, wait, c) ==
  CASE wait.handler = "encryptSSE" -> ResumeEncryptSSE(this, wait, c)
    [] wait.handler = "searchSSE" -> ResumeSearchSSE(this, wait, c)
    [] wait.handler = "decryptSSE" -> ResumeDecryptSSE(this, wait, c)

\* a call into the library completes and its handler is resumed
SettleSSE(i) ==
  /\ i \in 1..Len(waiting)
  /\ IF i \in 1..Len(waiting) THEN waiting[i].handler \in SSEHandlers ELSE FALSE
  /\ \E randomIV \in DrawnIVs :
       LET c == CompletionSSE(app, waiting[i], randomIV)
       IN GoOn(i, ResumeSSE(app, waiting[i], c))
  /\ UNCHANGED <<ibeModule, abeModule>>

NextAppSSE ==
  \/ CreateApp
  \/ TypeAES
  \/ ClickGenerateAESKey
  \/ ClickEncryptAES
  \/ ClickDecryptAES
  \/ TypeSSE
  \/ ClickGenerateSSEKey
  \/ ClickAddKeyword
  \/ ClickEncryptSSE
  \/ ClickSearchSSE
  \/ ClickSelectDocument
  \/ ClickDecryptSSE
  \/ \E i \in 1..MaxWaiting : SettleSSE(i)
  \/ ClickResetState

SpecAppSSE == Init /\ [][NextAppSSE]_vars

(***************************************************************************)
(* src/web/main.ts: the Dilithium panel up to its initialization, and the  *)
(* page in use with resetState over the AES, IBE and Dilithium panels.     *)
(***************************************************************************)
HandleInitDilithium(this) ==
  Left([this EXCEPT !.dilithiumState.error = EmptyString], Waits("initDilithium", NULL))

ResumeInitDilithium(this, wait, c) ==
  IF c.kind = "return"
  THEN Left([this EXCEPT !.dilithiumState.initialized = TRUE], NULL)
  ELSE Left([this EXCEPT !.dilithiumState.error =
                            ErrorText("initialization error", Caught(c)),
                         !.dilithiumState.initialized = FALSE], NULL)

\* initDilithium() of dilithium.ts for a module that is not loaded yet
initDilithium(load) ==
  IF load = "ok" THEN Return(NULL)
  ELSE Throw([context |-> "Failed to initialize Dilithium WebAssembly module",
              kind |-> "InitFailed"])

TypedMessages == {<<"a">>}

\* x-model="dilithiumState.message"
TypeDilithium ==
  /\ Shown("dilithium")
  /\ \E text \in TypedMessages : Typed([app EXCEPT !.dilithiumState.message = text])

\* the button is there until the module is initialized
ClickInitDilithium ==
  /\ Shown("dilithium")
  /\ ~app.dilithiumState.initialized
  /\ Click(HandleInitDilithium(app))

SettleDilithium(i) ==
  /\ i \in 1..Len(waiting)
  /\ IF i \in 1..Len(waiting) THEN waiting[i].handler \in DilithiumHandlers ELSE FALSE
  /\ \E load \in LoadOutcomes :
       GoOn(i, ResumeInitDilithium(app, waiting[i], initDilithium(load)))
  /\ UNCHANGED <<ibeModule, abeModule>>

NextAppReset ==
  \/ CreateApp
  \/ TypeAES
  \/ ClickGenerateAESKey
  \/ ClickEncryptAES
  \/ ClickDecryptAES
  \/ TypeIBE
  \/ ClickInitializeIBE
  \/ ClickGenerateIBEKeyPair
  \/ ClickExtractIBEKey
  \/ ClickEncryptIBE
  \/ ClickDecryptIBE
  \/ \E i \in 1..MaxWaiting : SettleIBE(i)
  \/ TypeDilithium
  \/ ClickInitDilithium
  \/ \E i \in 1..MaxWaiting : SettleDilithium(i)
  \/ ClickResetState

SpecAppReset == Init /\ [][NextAppReset]_vars

(***************************************************************************)
(* The attribute lists and the keyword list in use: the user types an      *)
(* input of letters, commas and blanks, adds it, and removes entries.      *)
(***************************************************************************)
MaxInputLen == 3

MaxListLen == 2

ListInputChars == {"A", ",", " "}

ListInputs == SeqsUpTo(ListInputChars, MaxInputLen)

\* x-model="abeState.attributeInput", "kpabeState.attributeInput",
\* "sseState.keywordInput"
TypeListInput ==
  \E input \in ListInputs :
    \/ Shown("abe") /\ Typed([app EXCEPT !.abeState.attributeInput = input])
    \/ Shown("kpabe") /\ Typed([app EXCEPT !.kpabeState.attributeInput = input])
    \/ Shown("sse") /\ Typed([app EXCEPT !.sseState.keywordInput = input])

\* an add that leaves the list within the size of the model
AddsWithin(this, list) ==
  /\ Len(list) <= MaxListLen
  /\ Typed(this)

AddAttributeToList ==
  Shown("abe") /\ AddsWithin(addAttribute(app), addAttribute(app).abeState.attributes)

AddKPABEAttributeToList ==
  /\ Shown("kpabe")
  /\ AddsWithin(addKPABEAttribute(app), addKPABEAttribute(app).kpabeState.attributes)

AddKeywordToList ==
  Shown("sse") /\ AddsWithin(addKeyword(app), addKeyword(app).sseState.keywords)

RemoveKeywordFromList ==
  /\ Shown("sse")
  /\ \E index \in 1..Len(app.sseState.keywords) : Typed(removeKeyword(app, index))

NextAppLists ==
  \/ CreateApp
  \/ TypeListInput
  \/ AddAttributeToList
  \/ ClickRemoveAttribute
  \/ AddKPABEAttributeToList
  \/ ClickRemoveKPABEAttribute
  \/ AddKeywordToList
  \/ RemoveKeywordFromList

SpecAppLists == Init /\ [][NextAppLists]_vars

(***************************************************************************)
(* Properties.  They are stated on the completion of the last call (ret)   *)
(* and on what the caller holds: a Decrypt call leaves the key, the        *)
(* ciphertext and their inputs in place, so after it keyInput, encInput    *)
(* and message are the inputs its operands were made from.                 *)
(***************************************************************************)
SetupOps == {"generateIBEKeyPair", "generateABEKeyPair", "generateKPABEKeyPair"}
ExtractOps == {"extractIBEKey", "extractABEKey", "extractKPABEKey"}
EncryptOps == {"encryptIBE", "encryptABE", "encryptKPABE"}
DecryptOps == {"decryptIBE", "decryptABE", "decryptKPABE"}

LastCall(ops) == ret # NULL /\ ret.op \in ops

Returned == ret.kind = "return" /\ ret.error = NULL

Rejected(k) == ret.kind = "throw" /\ ret.value = NULL /\ ret.error.kind = k

\* CP-ABE: the policy of the held ciphertext is covered by the attributes of the held key
CPKeySatisfies == ToSet(ParsePolicy(encInput.policy)) \subseteq ToSet(keyInput.attributes)

\* KP-ABE: the policy of the held key is covered by the attributes of the held ciphertext
KPCiphertextSatisfies == ToSet(ParsePolicy(keyInput.policy)) \subseteq ToSet(encInput.attributes)

\* C1: IBE round trip.  Decrypting a ciphertext made for an identity with the
\* key extracted for the same identity, both from the key pair of one Setup,
\* returns exactly the message that was encrypted.
IBERoundTrip ==
  (LastCall({"decryptIBE"}) /\ keyInput = encInput)
    => (Returned /\ ret.value = message)

IBERoundTripWitness ==
  /\ LastCall({"decryptIBE"}) /\ keyInput = encInput
  /\ keyInput.identity # <<>> /\ Len(message.bytes) > 0
  /\ Returned /\ ret.value = message

\* C2: CP-ABE Decrypt returns the original plaintext if and only if the
\* attributes of the key are a superset of the policy of the ciphertext.
CPABEDecryptsIffKeyCoversPolicy ==
  LastCall({"decryptABE"})
    => ((Returned /\ ret.value = message) <=> CPKeySatisfies)

\* a key with an extra attribute still decrypts
CPABEExtraAttributeWitness ==
  /\ LastCall({"decryptABE"})
  /\ Len(keyInput.attributes) = 2 /\ Len(ParsePolicy(encInput.policy)) = 1
  /\ CPKeySatisfies /\ Len(message.bytes) > 0
  /\ Returned /\ ret.value = message

\* C4: ABE Decrypt with a key that does not satisfy the ciphertext fails with
\* AttributeMismatch and returns no bytes (CP-ABE: a policy attribute is
\* missing from the key; KP-ABE: a key-policy attribute is missing from the
\* ciphertext).
ABEMismatchIsReported ==
  /\ (LastCall({"decryptABE"}) /\ ~CPKeySatisfies) => Rejected("AttributeMismatch")
  /\ (LastCall({"decryptKPABE"}) /\ ~KPCiphertextSatisfies) => Rejected("AttributeMismatch")

ABEMismatchWitness ==
  /\ LastCall({"decryptABE"})
  /\ ToSet(ParsePolicy(encInput.policy)) = {<<"A">>, <<"B">>}
  /\ ToSet(keyInput.attributes) = {<<"A">>}
  /\ Len(message.bytes) > 0
  /\ Rejected("AttributeMismatch")

\* what the key extracted for the identity of the held ciphertext pairs to
IBERightPairing ==
  pairing(ScalarMul(masterKey.secret, hashToPoint(encInput.identity)), ciphertext.U)

\* what the held key pairs to
IBEHeldPairing == pairing(privateKey.key, ciphertext.U)

\* C5 as stated: IBE Decrypt with the key of another identity completes
\* without error and returns bytes different from the original message.
IBEWrongIdentityNeverRecovers ==
  (LastCall({"decryptIBE"}) /\ keyInput # encInput)
    => (Returned /\ ret.value # message)

\* C5: IBE Decrypt with the key of another identity signals no mismatch: it
\* completes without error and returns as many bytes as the message had,
\* unmasked with the mask of the key it was given; they differ from the
\* original message exactly when that mask differs from the mask of
\* Encrypt over the length of the message (never for a zero-length message).
IBEWrongIdentityUnmasksWithOwnMask ==
  (LastCall({"decryptIBE"}) /\ keyInput # encInput)
    => /\ Returned
       /\ Len(ret.value.bytes) = Len(message.bytes)
       /\ (ret.value # message) <=>
            (KDF(IBEHeldPairing, Len(message.bytes)) # KDF(IBERightPairing, Len(message.bytes)))

IBEWrongIdentityWitness ==
  /\ LastCall({"decryptIBE"}) /\ keyInput # encInput
  /\ Returned /\ ret.value # message

EmptyPolicyIsRejected ==
  /\ (LastCall({"extractABEKey"}) /\ ret.arg.attributes = <<>>) => Rejected("EmptyPolicy")
  /\ (LastCall({"extractKPABEKey"}) /\ ParsePolicy(ret.arg.policy) = <<>>)
       => Rejected("EmptyPolicy")
  /\ (LastCall({"encryptABE"}) /\ ParsePolicy(ret.arg.input.policy) = <<>>)
       => Rejected("EmptyPolicy")
  /\ (LastCall({"encryptKPABE"}) /\ ret.arg.input.attributes = <<>>)
       => Rejected("EmptyPolicy")
  /\ scheme \in {"CP-ABE", "KP-ABE"}
       => /\ privateKey # NULL => privateKey.attributes # <<>>
          /\ ciphertext # NULL => ciphertext.attributes # <<>>

EmptyPolicyWitness ==
  /\ LastCall({"extractABEKey"}) /\ ret.arg.attributes = <<>>
  /\ Rejected("EmptyPolicy")

\* the target of the last Encrypt call names at least one attribute
EncryptTargetNonEmpty ==
  CASE ret.op = "encryptABE" -> ParsePolicy(ret.arg.input.policy) # <<>>
    [] ret.op = "encryptKPABE" -> ret.arg.input.attributes # <<>>
    [] OTHER -> TRUE

\* the held key is the right one for the held ciphertext
CorrectKey ==
  CASE scheme = "IBE" -> keyInput = encInput
    [] scheme = "CP-ABE" -> CPKeySatisfies
    [] scheme = "KP-ABE" ->
         ToSet(ParsePolicy(keyInput.policy)) = ToSet(encInput.attributes)
    [] OTHER -> FALSE

\* C8: encrypting a zero-length message is valid: with entropy at hand it
\* returns a ciphertext whose masked payload V has length 0, and decrypting
\* that ciphertext with the correct key returns a zero-length result.
EmptyMessageIsValid ==
  /\ (LastCall(EncryptOps) /\ ret.arg.message = <<>> /\ ret.arg.entropy
        /\ EncryptTargetNonEmpty)
       => (Returned /\ Len(ret.value.V) = 0)
  /\ (LastCall(DecryptOps) /\ message.bytes = <<>> /\ CorrectKey)
       => (Returned /\ ret.value.bytes = <<>>)

EmptyMessageWitness ==
  /\ LastCall({"decryptIBE"}) /\ message.bytes = <<>> /\ keyInput = encInput
  /\ Len(ciphertext.V) = 0
  /\ Returned /\ ret.value.bytes = <<>>

IsByteString(b) == \A i \in 1..Len(b) : b[i] \in Byte

\* the value returned by the last Encrypt / Decrypt call is a complete output
WellFormedOutput ==
  IF ret.op \in EncryptOps
  THEN /\ ret.value.type = "Uint8Array"
       /\ ret.value.U \in 1..(GroupOrder - 1)
       /\ IsByteString(ret.value.V)
       /\ Len(ret.value.V) = Len(ret.arg.message)
       /\ ret.op # "encryptIBE" =>
            /\ ret.value.attributes # <<>>
            /\ ret.value.tag.checksum = ret.arg.message
  ELSE /\ ret.value.type = "Uint8Array"
       /\ IsByteString(ret.value.bytes)
       /\ Len(ret.value.bytes) = Len(ciphertext.V)

SetupResultComplete ==
  /\ Returned
  /\ ret.value.masterKey # NULL
  /\ ret.value.publicParams # NULL
  /\ ret.value.publicParams.params.publicPoint
       = ScalarMul(ret.value.masterKey.secret, generatorPoint)

\* C10 as stated: unless the randomness source fails, Setup succeeds and
\* returns both a MasterKey and the PublicParams of the same secret.
SetupSucceedsUnlessNoEntropy ==
  (LastCall(SetupOps) /\ ret.arg.entropy) => SetupResultComplete

\* C10: unless the randomness source fails or the WebAssembly module cannot
\* be loaded and initialised, Setup succeeds and returns both a MasterKey
\* and the PublicParams of the same secret; it never returns a result in
\* which one of the two is missing.
SetupSucceedsUnlessNoEntropyOrNoModule ==
  LastCall(SetupOps)
    => /\ (ret.arg.entropy /\ ret.arg.load = "ok") => SetupResultComplete
       /\ ret.kind = "return" => SetupResultComplete

SetupWitness ==
  /\ LastCall({"generateABEKeyPair"}) /\ ret.arg.entropy /\ ret.arg.load = "ok"
  /\ SetupResultComplete

Done(c) == calls[c] # NULL /\ calls[c].pc = "done"

\* every completed call returned what it returns when run alone
CallsReturnAsAlone == \A c \in CallIds : Done(c) => calls[c].result = RunAlone(calls[c])

InitAfterInitIsNoOp ==
  \A c \in CallIds :
    (/\ calls[c] # NULL
     /\ IsInit(calls[c].op)
     /\ calls[c].found.isInitialized /\ calls[c].found.wasmModule # NULL)
      => /\ calls[c].pc = "done"
         /\ calls[c].result = Return(NULL)
         /\ ~calls[c].loaded

InitAfterInitWitness ==
  /\ Done(1) /\ calls[1].op = "initIBE" /\ calls[1].loaded
  /\ Done(2) /\ calls[2].op = "initIBE" /\ calls[2].found.isInitialized
  /\ calls[2].result = Return(NULL) /\ ~calls[2].loaded

KeyCarriesItsAttributes ==
  /\ (scheme = "CP-ABE" /\ privateKey # NULL) => privateKey.attributes = keyInput.attributes
  /\ (scheme = "KP-ABE" /\ privateKey # NULL)
       => privateKey.attributes = ParsePolicy(keyInput.policy)
  /\ (LastCall({"extractABEKey"}) /\ Returned) => ret.value.attributes = ret.arg.attributes
  /\ (LastCall({"extractKPABEKey"}) /\ Returned)
       => ret.value.attributes = ParsePolicy(ret.arg.policy)

\* a key for the policy "B,A", still held after an Encrypt and a Decrypt
KeyCarriesItsAttributesWitness ==
  /\ scheme = "KP-ABE" /\ privateKey # NULL
  /\ keyInput.policy = <<"B", ",", "A">>
  /\ privateKey.attributes = << <<"B">>, <<"A">> >>
  /\ LastCall({"decryptKPABE"})

\* the attributes the held key and the held ciphertext were made for
HeldKeyAttributes ==
  IF scheme = "CP-ABE" THEN keyInput.attributes ELSE ParsePolicy(keyInput.policy)

HeldCiphertextAttributes ==
  IF scheme = "CP-ABE" THEN ParsePolicy(encInput.policy) ELSE encInput.attributes

\* the held ABE key is the IBE key of its one attribute
SingleAttributeKeyIsIBEKey ==
  (scheme \in {"CP-ABE", "KP-ABE"} /\ privateKey # NULL /\ Len(HeldKeyAttributes) = 1)
    => (/\ Len(privateKey.key) = 1
        /\ privateKey.key[1] = IBE_extract(masterKey, HeldKeyAttributes[1]).value.key)

\* the held ABE ciphertext is (U, V) of an IBE ciphertext for its one attribute
SingleAttributeCiphertextIsIBECiphertext ==
  (scheme \in {"CP-ABE", "KP-ABE"} /\ ciphertext # NULL /\ Len(HeldCiphertextAttributes) = 1)
    => \E r \in Scalars :
         LET c == IBE_encrypt(publicParams, HeldCiphertextAttributes[1], message.bytes,
                              [ok |-> TRUE, scalar |-> r]).value
         IN c.U = ciphertext.U /\ c.V = ciphertext.V

SingleAttributeDecrypt ==
  /\ LastCall({"decryptABE", "decryptKPABE"})
  /\ Len(HeldKeyAttributes) = 1 /\ Len(HeldCiphertextAttributes) = 1

\* what IBE Decrypt returns for the held key and ciphertext
AsIBEDecrypt ==
  IBE_decrypt([type |-> "IBEPrivateKey", key |-> privateKey.key[1]],
              [type |-> "Uint8Array", U |-> ciphertext.U, V |-> ciphertext.V])

\* C14 as stated: with one attribute on the key and one on the ciphertext,
\* CP-ABE and KP-ABE KeyGen / Encrypt / Decrypt behave exactly like IBE
\* Extract / Encrypt / Decrypt with that attribute as the identity.
SingleAttributeABEIsIBE ==
  /\ SingleAttributeKeyIsIBEKey
  /\ SingleAttributeCiphertextIsIBECiphertext
  /\ SingleAttributeDecrypt => (Returned /\ ret.value = AsIBEDecrypt.value)

\* C14: with one attribute on the key and one on the ciphertext, the ABE key
\* component is the IBE key of that attribute, (U, V) of the ABE ciphertext
\* is an IBE ciphertext for that attribute, and Decrypt returns what IBE
\* Decrypt returns when the two attributes are the same; when they differ,
\* ABE Decrypt fails with AttributeMismatch where IBE Decrypt returns bytes.
SingleAttributeABEIsIBEUpToMismatch ==
  /\ SingleAttributeKeyIsIBEKey
  /\ SingleAttributeCiphertextIsIBECiphertext
  /\ SingleAttributeDecrypt =>
       IF HeldKeyAttributes = HeldCiphertextAttributes
       THEN Returned /\ ret.value = AsIBEDecrypt.value
       ELSE Rejected("AttributeMismatch") /\ AsIBEDecrypt.kind = "return"

SingleAttributeWitness ==
  /\ SingleAttributeDecrypt /\ scheme = "KP-ABE"
  /\ HeldKeyAttributes = HeldCiphertextAttributes
  /\ Len(message.bytes) > 0
  /\ Returned /\ ret.value = AsIBEDecrypt.value

\* C15: serialization round trip.  For every object the engine constructs,
\* decoding its encoding gives the object back, and encoding the decoded
\* value again gives the same bytes.
SerializationRoundTrip ==
  codec # NULL /\ codec.object # NULL =>
    /\ codec.decoded # NULL => codec.decoded = Return(codec.object)
    /\ codec.reencoded # NULL => codec.reencoded = codec.encoded

\* an ABE ciphertext for two attributes went over the wire and back
SerializationRoundTripWitness ==
  /\ codec # NULL /\ codec.object # NULL /\ codec.reencoded # NULL
  /\ codec.kind = "ABECiphertext"
  /\ Len(codec.object.attributes) = 2 /\ Len(codec.object.V) = 1

\* C16: no logging.  No IBE / ABE operation writes to the console, whether it
\* succeeds or fails.
NothingIsLogged == [][console' = console]_vars

\* the field at position k (from 0) of the supplied bytes is there, is made
\* of binary digits and its value is one of `valid`
FieldIsValid(wire, k, valid) ==
  /\ Len(wire) >= (k + 1) * FieldWidth
  /\ \A i \in 1..FieldWidth : wire[k * FieldWidth + i] \in 0..1
  /\ (4 * wire[k * FieldWidth + 1] + 2 * wire[k * FieldWidth + 2]
        + wire[k * FieldWidth + 3]) \in valid

\* the supplied bytes have the wrong length for their kind, or a scalar or a
\* point in them is not valid: out of range, or the point at infinity
MalformedBytes(kind, wire) ==
  CASE kind \in {"IBEMasterKey", "ABEMasterKey"} ->
         Len(wire) # FieldWidth \/ ~FieldIsValid(wire, 0, 0..(GroupOrder - 1))
    [] kind \in {"IBEPublicParams", "ABEPublicParams"} ->
         \/ Len(wire) # 2 * FieldWidth
         \/ ~FieldIsValid(wire, 0, 1..(GroupOrder - 1))
         \/ ~FieldIsValid(wire, 1, 1..(GroupOrder - 1))
    [] kind = "IBEPrivateKey" ->
         Len(wire) # FieldWidth \/ ~FieldIsValid(wire, 0, 1..(GroupOrder - 1))
    [] kind = "IBECiphertext" ->
         \/ ~FieldIsValid(wire, 0, 1..(GroupOrder - 1))
         \/ Len(wire) < FieldWidth + 1
         \/ Len(wire) # FieldWidth + 1 + wire[FieldWidth + 1]
    [] kind = "ABECiphertext" ->
         \/ ~FieldIsValid(wire, 0, 1..(GroupOrder - 1))
         \/ ~FieldIsValid(wire, 1, 0..(GroupOrder - 1))
    [] OTHER ->
         \/ wire = <<>>
         \/ Len(wire) < 1 + wire[1] * FieldWidth
         \/ \E j \in 1..wire[1] :
              LET at == Len(wire) - j * FieldWidth
              IN \/ \E i \in 1..FieldWidth : wire[at + i] \notin 0..1
                 \/ (4 * wire[at + 1] + 2 * wire[at + 2] + wire[at + 3])
                      \notin 1..(GroupOrder - 1)

OperationRejects(k) ==
  /\ codec.outcome.kind = "throw" /\ codec.outcome.value = NULL
  /\ codec.outcome.error.kind = k

\* C17: validation of supplied bytes.  An operation given bytes of the wrong
\* length, or bytes that are not a valid scalar or point, fails with
\* InvalidEncoding; when it does not fail so, it has worked on the very
\* object the bytes encode, never on infinity or zero in its place.
SuppliedBytesAreValidated ==
  codec # NULL /\ codec.object = NULL /\ codec.outcome # NULL =>
    /\ MalformedBytes(codec.kind, codec.encoded) => OperationRejects("InvalidEncoding")
    /\ ~OperationRejects("InvalidEncoding") =>
         /\ codec.decoded.kind = "return"
         /\ encode(codec.decoded.value) = codec.encoded
         /\ codec.outcome = Wrapped(codec.kind, Operation(codec.kind, codec.decoded.value))

\* a private key whose point reads as the point at infinity was supplied to
\* Decrypt and refused
SuppliedBytesWitness ==
  /\ codec # NULL /\ codec.object = NULL /\ codec.outcome # NULL
  /\ codec.kind = "IBEPrivateKey" /\ codec.encoded = <<0, 0, 0>>
  /\ OperationRejects("InvalidEncoding")

Decrypted == aead # NULL /\ aead.outcome # NULL

\* the nonce (AES: the IV) the encryption used
UsedNonce ==
  IF aead.algorithm = "AES" THEN aead.encrypted.value.iv ELSE aead.encrypted.value.nonce

\* decryption was called with the key and the nonce of the encryption
SameKeyAndNonce == aead.presented.key = aead.key /\ aead.presented.nonce = UsedNonce

DecryptFails(text) ==
  aead.outcome.kind = "throw" /\ aead.outcome.error.message = text

\* C19 as stated: every tag that differs from the one produced at encryption
\* makes decryptAES / decryptChaCha20 throw an error that starts with
\* "Authentication failed".
EveryOtherTagFailsAuthentication ==
  Decrypted /\ SameKeyAndNonce
    /\ aead.presented.authTag # aead.encrypted.value.authTag
    => DecryptFails("Authentication failed")

\* C19, amended: a tag other than the one produced at encryption never yields
\* a plaintext.  Of the 16 bytes a tag must have, it makes decryption throw
\* "Authentication failed"; of another length it is refused before any
\* authentication, with "Invalid auth tag length".  Whatever key and nonce
\* are presented, a plaintext is returned only for the tag the ciphertext has
\* under them.
OtherTagNeverDecrypts ==
  Decrypted =>
    /\ SameKeyAndNonce /\ aead.presented.authTag # aead.encrypted.value.authTag =>
         IF Len(aead.presented.authTag) = 16
         THEN DecryptFails("Authentication failed")
         ELSE DecryptFails("Invalid auth tag length")
    /\ aead.outcome.kind = "return" =>
         /\ aead.presented.authTag =
              ComputeTag(aead.presented.key, aead.presented.nonce,
                         aead.encrypted.value.ciphertext, 16)
         /\ SameKeyAndNonce => aead.outcome.value = aead.plaintext

\* the first byte of the tag of an AES encryption was changed and the
\* decryption failed its authentication
TamperedTagWitness ==
  /\ Decrypted /\ SameKeyAndNonce /\ aead.algorithm = "AES"
  /\ aead.presented.authTag = FlipByte(aead.encrypted.value.authTag, 1)
  /\ DecryptFails("Authentication failed")

Searched == sse # NULL /\ sse.search # NULL

\* the stored documents, in their order, for which `wanted` holds
RECURSIVE StoredDocuments(_, _)
StoredDocuments(wanted, i) ==
  IF i > Len(sse.documents) THEN <<>>
  ELSE (IF wanted[i] THEN <<sse.documents[i]>> ELSE <<>>) \o StoredDocuments(wanted, i + 1)

\* document i was encrypted with keyword k in its list
HasKeyword(k) == [i \in 1..Len(sse.documents) |-> k \in ToSet(sse.keywords[i])]

\* document i was encrypted with a keyword of the same UTF-8 encoding as k
HasKeywordEncodedAs(k) ==
  [i \in 1..Len(sse.documents) |->
     \E other \in ToSet(sse.keywords[i]) : TextEncode(other) = TextEncode(k)]

SearchReturns(docs) ==
  /\ sse.search.result.kind = "return"
  /\ sse.search.result.value.documents = docs

\* C20 as stated: under a master key that documents can be encrypted with, a
\* search with the token of keyword k returns exactly the documents whose
\* keyword list contained k, in their original order.
SearchFindsExactlyTheKeyword ==
  Searched /\ Len(sse.masterKey) = 32 =>
    SearchReturns(StoredDocuments(HasKeyword(sse.search.keyword), 1))

\* C20, amended: under a master key of 32 bytes, a search with the token of
\* keyword k returns, in their original order, exactly the documents whose
\* keyword list contained a keyword with the UTF-8 encoding of k, which for
\* well-formed strings is k itself; a master key of another length makes
\* generateSearchToken throw.
SearchFindsExactlyTheEncodedKeyword ==
  Searched =>
    IF Len(sse.masterKey) = 32
    THEN SearchReturns(StoredDocuments(HasKeywordEncodedAs(sse.search.keyword), 1))
    ELSE /\ sse.search.result.kind = "throw"
         /\ sse.search.result.error.message = "Invalid master key length"

\* of two stored documents the search returned the second only
SearchWitness ==
  /\ Searched /\ Len(sse.documents) = 2
  /\ sse.search.keyword = <<"A">>
  /\ sse.keywords[1] = << <<"uFFFD">> >> /\ sse.keywords[2] = << <<"uD800">>, <<"A">> >>
  /\ SearchReturns(<<sse.documents[2]>>)

\* the last verification, when there is one
VerifiedSignature == IF signing = NULL THEN FALSE ELSE signing.verified # NULL

\* the signature presented is the one of the presented message made with the
\* private key of the presented public key (under the presented hash)
SignatureVerifies ==
  LET v == signing.verified
  IN IF ~v.usable THEN FALSE
     ELSE IF signing.how = "RSA"
          THEN signRSA(v.text, v.publicKey.key, v.algorithm) = Return(v.signature)
          ELSE signEcdsa(v.text, v.publicKey[1], v.algorithm) = Return(v.signature)

\* the signature presented has the length the key and the curve ask for
SignatureHasItsLength ==
  Len(signing.verified.signature) =
    IF signing.how = "RSA" THEN RSA_SIGNATURE_LENGTH ELSE CURVE_SIGNATURE_LENGTH

HashIsSupported ==
  IF signing.how = "RSA" THEN SupportedAlgName(AlgName(signing.verified.algorithm)) ELSE TRUE

ValidHex(text) ==
  LET cleanHex == RemoveWhitespace(text)
  IN /\ Len(cleanHex) % 2 = 0
     /\ \A i \in 1..Len(cleanHex) : IsHexDigit(cleanHex[i])

\* C22: hexToBytes throws for every input that is not a valid hexadecimal
\* string.
InvalidHexIsRejected ==
  IF hex = NULL THEN TRUE
  ELSE ~ValidHex(hex.text) => hex.completion.kind = "throw"

\* two calls on the same module, the second started while the first was
\* waiting for the module to load and before it had set isInitialized
OverlappingInit(c, d) ==
  /\ c # d /\ calls[c] # NULL /\ calls[d] # NULL
  /\ IF calls[c] = NULL \/ calls[d] = NULL THEN FALSE
     ELSE c \in calls[d].during

\* the call has gone through `wasmModule = await wasmInit(...)` and
\* `wasmModule.init()`
InitInvoked(c) == IF calls[c] = NULL THEN FALSE ELSE calls[c].loaded

\* the call has resolved
Resolved(c) ==
  IF calls[c] = NULL THEN FALSE
  ELSE IF calls[c].pc # "done" THEN FALSE ELSE calls[c].result.kind = "return"

\* C23: of the init calls (and the calls through them) started while the
\* first is still loading the module, at most one instantiates the module
\* and invokes its init(), and a caller resolves only once the module is
\* initialized.
ModuleIsInstantiatedOnce ==
  /\ \A c, d \in CallIds : OverlappingInit(c, d) => ~(InitInvoked(c) /\ InitInvoked(d))
  /\ \A c \in CallIds : Resolved(c) => AlreadyInitialized(Globals(calls[c].op))

\* the private key and the ciphertext of a panel's state record, when there,
\* were made with the master key and the public parameters of the record
BelongsToStoredKey(state) ==
  /\ state.privateKey # NULL =>
       IF state.privateKey = NULL THEN TRUE
       ELSE state.privateKey.madeWith = state.masterKey
  /\ state.ciphertext # NULL =>
       IF state.ciphertext = NULL THEN TRUE
       ELSE state.ciphertext.madeWith = state.publicParams

\* C24: a private key or ciphertext held in ibeState, abeState or kpabeState
\* was produced from the master key and the public parameters the same
\* record holds at that moment.
ArtefactsBelongToStoredKey ==
  IF app = NULL THEN TRUE
  ELSE /\ BelongsToStoredKey(app.ibeState)
       /\ BelongsToStoredKey(app.abeState)
       /\ BelongsToStoredKey(app.kpabeState)

\* the handler at place i of the waiting ones was invoked before resetState
\* last ran
InvokedBeforeReset(i) ==
  IF i \in 1..Len(waiting) THEN waiting[i].beforeReset ELSE FALSE

\* the step is one in which the handler at place i goes on after its await
HandlerGoesOn(i) ==
  IF i \in 1..Len(waiting)
  THEN IF Len(waiting') = Len(waiting) - 1
       THEN waiting' = SubSeq(waiting, 1, i - 1) \o SubSeq(waiting, i + 1, Len(waiting))
       ELSE IF Len(waiting') = Len(waiting)
            THEN waiting'[i].handler # waiting[i].handler
            ELSE FALSE
  ELSE FALSE

\* C27: a handler that was waiting when resetState ran writes nothing into
\* the state records when its call completes, so the records keep the
\* values resetState gave them.
ResetStateIsKept ==
  [][\A i \in 1..MaxWaiting : (InvokedBeforeReset(i) /\ HandlerGoesOn(i)) => app' = app]_vars

\* the step is one in which the call of the handler waiting at place i
\* completes and the handler runs to its end
Completes(i, handler) ==
  /\ HandlerGoesOn(i)
  /\ IF i \in 1..Len(waiting) THEN waiting[i].handler = handler ELSE FALSE

\* what the wrapper answers to the call a decrypt handler waits for: the
\* module is loaded when a private key exists, and decryption draws nothing
EngineAnswer(wait) == CompletionABE(wait, abeModule, "ok", SampleDraw)

\* what decryptABE and decryptKPABE leave in their state record for the
\* completion c of the wrapper's call
DecryptOutcome(state, c) ==
  /\ state.decryptionSucceeded = Boolean(TRUE) <=> c.kind = "return"
  /\ c.kind = "return" =>
       /\ state.decryptedBytes = c.value
       /\ state.error = EmptyString
  /\ state.decryptionSucceeded # Boolean(TRUE) =>
       /\ state.decrypted = EmptyString
       /\ state.decryptedBytes = NULL
  /\ state.decryptionSucceeded = Boolean(FALSE) <=>
       (IF c.kind = "throw" THEN IsAttributeMismatch(c.error) ELSE FALSE)
  /\ state.decryptionSucceeded = Boolean(FALSE) => state.error = EmptyString
  /\ (IF c.kind = "throw" THEN ~IsAttributeMismatch(c.error) ELSE FALSE) =>
       /\ state.decryptionSucceeded = NULL
       /\ state.error # EmptyString

ShowsDecryptionError(state) ==
  IF state.error = EmptyString THEN FALSE
  ELSE state.error[1].heading = "decryption error"

\* no decrypted text and no decrypted bytes are shown next to the error of
\* a failed decryption
NoPlaintextNextToError(state) ==
  ShowsDecryptionError(state) =>
    state.decrypted = EmptyString /\ state.decryptedBytes = NULL

\* C26: when decryptAES, decryptIBE, decryptABE, decryptKPABE or decryptSSE
\* has finished with an error, decrypted is empty and decryptedBytes is null
\* in the state record of that algorithm.
FailedDecryptionShowsNoPlaintext ==
  IF app = NULL THEN TRUE
  ELSE /\ NoPlaintextNextToError(app.aesState)
       /\ NoPlaintextNextToError(app.ibeState)
       /\ NoPlaintextNextToError(app.abeState)
       /\ NoPlaintextNextToError(app.kpabeState)
       /\ NoPlaintextNextToError(app.sseState)

\* the entry was stored with the keyword
StoredWith(entry, keyword) == includes(entry.madeWith.keywords, keyword)

\* searchResults holds exactly the entries of documents stored with the
\* keyword the search was started with, in the order of documents
ResultsAreTheMatches(state, keyword) ==
  state.searchResults = SelectSeq(state.documents, LAMBDA entry : StoredWith(entry, keyword))

\* selectedDocumentId is the id of the single result, and null when there is
\* none or more than one
SelectionFollowsResults(state) ==
  state.selectedDocumentId =
    IF Len(state.searchResults) = 1 THEN state.searchResults[1].id ELSE NULL

\* the step is a click on decryptSSE that calls the library
StartsDecryptSSE ==
  /\ Len(waiting') = Len(waiting) + 1
  /\ IF Len(waiting') = 0 THEN FALSE ELSE waiting'[Len(waiting')].handler = "decryptSSE"

\* the library is called for an entry of documents, with the id of that entry
DecryptsListedEntry(state, wait) ==
  \E i \in 1..Len(state.documents) :
    /\ state.documents[i].id = state.selectedDocumentId
    /\ state.documents[i].id = Bytes(wait.operands.documentId)
    /\ state.documents[i].document = wait.operands.document

\* the selection follows the results of a completed search, and decryptSSE
\* decrypts an entry of the list under that entry's id
SearchSelectsAndDecryptsListed ==
  [][/\ \A i \in 1..MaxWaiting :
          Completes(i, "searchSSE") => SelectionFollowsResults(app'.sseState)
     /\ StartsDecryptSSE =>
          DecryptsListedEntry(app.sseState, waiting'[Len(waiting')])]_vars

\* C30: when searchSSE has completed, searchResults holds exactly the
\* entries of documents that were stored with the search keyword, in list
\* order, and selectedDocumentId is the id of the single result or null;
\* decryptSSE decrypts an entry of documents under that entry's own id.
SearchShowsTheMatchingDocuments ==
  [][/\ \A i \in 1..MaxWaiting :
          Completes(i, "searchSSE") =>
            /\ ResultsAreTheMatches(app'.sseState, waiting[i].operands.keyword)
            /\ SelectionFollowsResults(app'.sseState)
     /\ StartsDecryptSSE =>
          DecryptsListedEntry(app.sseState, waiting'[Len(waiting')])]_vars

\* the records as cryptoApp() creates them, with the algorithm and the
\* comparison mode of hashState following selectedCrypto
CreatedFor(selectedCrypto) ==
  [cryptoApp(selectedCrypto) EXCEPT
     !.hashState = hashState0(ResetAlgorithm(selectedCrypto),
                              ResetComparisonMode(selectedCrypto))]

\* resetState gives every record but dilithiumState and falconState the
\* value it had when the page was created, and keeps selectedCrypto
ResetRestoresTheOtherRecords ==
  [][ClickResetState =>
       [app' EXCEPT !.dilithiumState = dilithiumState0, !.falconState = falconState0]
         = CreatedFor(app.selectedCrypto)]_vars

\* C28: resetState gives every state record, dilithiumState and falconState
\* too, the value it had when cryptoApp() was created (the algorithm and
\* the comparison mode of hashState following selectedCrypto), and changes
\* nothing else.
ResetRestoresEveryRecord ==
  [][ClickResetState => app' = CreatedFor(app.selectedCrypto)]_vars

\* no entry twice, no empty entry, no entry with a blank at either end
ListIsClean(list) ==
  /\ \A i, j \in 1..Len(list) : list[i] = list[j] => i = j
  /\ \A i \in 1..Len(list) : list[i] # EmptyString /\ trim(list[i]) = list[i]

\* later is earlier with entries appended at its end
IsExtended(earlier, later) ==
  /\ Len(later) >= Len(earlier)
  /\ SubSeq(later, 1, Len(earlier)) = earlier

\* later is earlier with one entry taken out, the others in their order
IsReduced(earlier, later) ==
  \E index \in 1..Len(earlier) : later = splice(earlier, index)

\* a step keeps the entries of the list in the order they were added in
KeepsOrder(earlier, later) == IsExtended(earlier, later) \/ IsReduced(earlier, later)

\* C29: whatever is added to and removed from abeState.attributes,
\* kpabeState.attributes and sseState.keywords, each list has no entry
\* twice, no empty entry and no entry with leading or trailing whitespace,
\* and its entries stay in the order in which they were added.
ListsStayCleanAndOrdered ==
  [][IF app = NULL THEN TRUE
     ELSE /\ ListIsClean(app'.abeState.attributes)
          /\ ListIsClean(app'.kpabeState.attributes)
          /\ ListIsClean(app'.sseState.keywords)
          /\ KeepsOrder(app.abeState.attributes, app'.abeState.attributes)
          /\ KeepsOrder(app.kpabeState.attributes, app'.kpabeState.attributes)
          /\ KeepsOrder(app.sseState.keywords, app'.sseState.keywords)]_vars

\* two attributes have been added, and the input field is cleared
TwoAttributesWitness ==
  IF app = NULL THEN FALSE
  ELSE /\ app.abeState.attributes = << <<"A">>, <<"A", "A">> >>
       /\ app.abeState.attributeInput = EmptyString

====
